---- MODULE Spec2Model ----
(***************************************************************************)
(* Verification model of the league scheduler's scheduling core.           *)
(*                                                                         *)
(* Spec       : EnhancedScheduler.build_schedule                           *)
(*              (src/scheduler_api/enhanced_scheduler.py)                  *)
(* MatchupSpec: generate_matchups with _fit_games_per_team                 *)
(*              (src/scheduler_api/engine/scheduler.py)                    *)
(* PipelineSpec: run_pipeline, from the parsed slots to the sorted frame   *)
(*              (src/scheduler_api/engine/pipeline.py, matchups.py,        *)
(*              assign.py, costs.py, utils.py)                             *)
(* OptSpec    : optimize_from_dict, the late-slot rebuild of one week      *)
(*              (src/scheduler_api/schedule_optimizer.py)                  *)
(* PassSpec   : the repair passes cap_fix, smooth_gaps, balance_weekdays   *)
(*              and balance_home_away (src/scheduler/passes, models.py)    *)
(* RoundRobinSpec, ValidateSpec, EmlSpec, TimezoneSpec : functions called  *)
(*              on their own: the circle method generators,                *)
(*              validate_schedule (src/scheduler/engine.py), the E/M/L     *)
(*              classifiers and the time zone of the two constructors      *)
(* SeedSpec   : run_scheduler from generate_matchups to seed_week1         *)
(*              (src/scheduler_api/engine/scheduler.py)                    *)
(*                                                                         *)
(* The specifications share the variables; each one starts with the        *)
(* variables of the others at rest and leaves them unchanged.              *)
(*                                                                         *)
(* Time is counted in minutes: a slot start is day*MinutesPerDay + tod.    *)
(* Scores of the greedy pick are the source's floating point scores        *)
(* multiplied by ScoreScale, computed in exact integer arithmetic.         *)
(* random.shuffle is a nondeterministic choice of the order.               *)
(* A game record keeps the fields that the scheduler reads again (Date,    *)
(* SlotID, HomeTeam, AwayTeam, Division); phase is a history field naming  *)
(* the phase that placed the game.                                         *)
(***************************************************************************)
EXTENDS Integers, Sequences, FiniteSets, TLC

(* ------------------------------ bounds ------------------------------ *)
MaxSlots == 4
MaxK == 2

\* slot starts on offer: (day, minute of the day); 20:00 and 23:00 on days 0..3
StartTimes ==
  {[day |-> 0, tod |-> 1200], [day |-> 0, tod |-> 1380], [day |-> 1, tod |-> 1200],
   [day |-> 2, tod |-> 1200], [day |-> 3, tod |-> 1380]}
DivSizeChoices == {<<2>>, <<3>>, <<4>>, <<2, 2>>}
\* params["blockSize"]: 0 stands for None (derived from the team count)
BlockSizeParams == {0, 1, 3}

(* ------------------------- program constants ------------------------ *)
MinutesPerDay == 1440
EarlyEndDefault == 1321
MidEndDefault == 1351
ScoreScale == 960
None == -1
DivTags == <<"div12", "div8">>
Buckets == {"Early", "Mid", "Late"}

VARIABLES
  pc,                 \* position in build_schedule
  cfg,                \* the caller's inputs: teams per division and params
  rawSlots,           \* the caller's slots, in input order
  block_size,         \* self.block_size
  block_recipe,       \* self.block_recipe : division tag -> games per block
  scaled,             \* the recipe being rescaled (local of build_schedule)
  processed_slots,    \* processed_slots, sorted, segmented and stamped
  div_rounds,         \* _strict_block_fill: division tag -> rounds
  div_round_idx,      \* _strict_block_fill: division tag -> round cursor
  games_assigned,     \* the schedule under construction
  used_slot_ids,      \* slots used by the strict filler
  played_in_segment,  \* segment -> teams already placed in it
  team_game_count,    \* team -> games
  home_count,         \* team -> home games counted by greedy and force
  last_game_time,     \* team -> start of the last greedy game, or None
  opp_last_week,      \* team -> last greedy opponent, or None
  bucket_count,       \* team -> bucket -> greedy games
  weekday_count,      \* team -> weekday -> greedy games
  pair_remaining,     \* pair -> remaining quota
  pair_quota,         \* history: the table _build_pair_quota returned
  seg_div_remaining,  \* segment -> division tag -> slots left
  cursor,             \* loop index of the running loop
  \* engine/scheduler.py: generate_matchups and _fit_games_per_team
  gm_pc,              \* position in generate_matchups
  gm_in,              \* the caller's divisions, teams and params
  pool,               \* pool
  cnt,                \* cnt : team -> matchups of the pool
  keep,               \* keep
  per,                \* per : team -> matchups kept
  gm_i,               \* i, the index of the extension loop
  gm_j,               \* position in rng.sample(pool, len(pool))
  \* engine/pipeline.py: run_pipeline
  pl_pc,              \* position in run_pipeline
  pl_in,              \* the caller's slots_data, divisions, teams and params
  pl_slots,           \* slots: the parsed Slot objects, sorted by start
  matchups,           \* matchups
  all_matchups,       \* all_matchups
  team_states,        \* assign_slots_to_matchups: team id -> TeamState
  assigned_games,     \* assign_slots_to_matchups: assigned_games
  pl_k,               \* matchups of all_matchups already handled
  schedule_df,        \* the rows of the returned frame
  \* schedule_optimizer.py: optimize_from_dict
  op_pc,              \* position in optimize_from_dict
  op_in,              \* the caller's schedule and params
  op_buckets,         \* buckets
  op_week,            \* i + 1, the week being processed
  optimized_schedule, \* optimized_schedule
  completed_buckets,  \* completed_buckets
  cleared_games,      \* _place_teams_in_late_slots: cleared_games
  existing_matchups,  \* _place_teams_in_late_slots: existing_matchups, sorted
  placed_matchups,    \* _place_teams_in_late_slots: placed_matchups
  late_slots,         \* late slots that Phase 1 has not visited yet
  unplaced_teams,     \* _optimize_days_since_last_played: unplaced_teams
  available_slots,    \* _optimize_days_since_last_played: available_slots
  \* src/scheduler/passes: the repair passes
  rp_pc,              \* the pass that is running, and where it is
  rp_in,              \* the pass, the caller's schedule and the config
  rp_games,           \* schedule.games
  rp_teams,           \* schedule.teams
  violations,         \* cap_fix: the violations not handled yet
  teams_to_improve,   \* teams_to_improve
  improve_queue,      \* the teams left in the running iteration
  iteration,          \* iteration + 1
  iteration_improvements, \* iteration_improvements
  last_fix,           \* history: the proposals and the choice of the last fix
  swaps_made,         \* history: the pairs of games whose dates were exchanged
  \* functions called on their own
  fn_pc,              \* the function that is called, or "done"
  fn_in,              \* its arguments
  fn_out              \* what it returned or raised

vars == <<pc, cfg, rawSlots, block_size, block_recipe, scaled, processed_slots,
          div_rounds, div_round_idx, games_assigned, used_slot_ids,
          played_in_segment, team_game_count, home_count, last_game_time,
          opp_last_week, bucket_count, weekday_count, pair_remaining,
          pair_quota, seg_div_remaining, cursor,
          gm_pc, gm_in, pool, cnt, keep, per, gm_i, gm_j,
          pl_pc, pl_in, pl_slots, matchups, all_matchups, team_states,
          assigned_games, pl_k, schedule_df,
          op_pc, op_in, op_buckets, op_week, optimized_schedule,
          completed_buckets, cleared_games, existing_matchups,
          placed_matchups, late_slots, unplaced_teams, available_slots,
          rp_pc, rp_in, rp_games, rp_teams, violations, teams_to_improve,
          improve_queue, iteration, iteration_improvements, last_fix, swaps_made,
          fn_pc, fn_in, fn_out>>

schedulerVars == <<pc, cfg, rawSlots, block_size, block_recipe, scaled, processed_slots,
                   div_rounds, div_round_idx, games_assigned, used_slot_ids,
                   played_in_segment, team_game_count, home_count, last_game_time,
                   opp_last_week, bucket_count, weekday_count, pair_remaining,
                   pair_quota, seg_div_remaining, cursor>>
matchupVars == <<gm_pc, gm_in, pool, cnt, keep, per, gm_i, gm_j>>
pipelineVars == <<pl_pc, pl_in, pl_slots, matchups, all_matchups, team_states,
                  assigned_games, pl_k, schedule_df>>
optimizerVars == <<op_pc, op_in, op_buckets, op_week, optimized_schedule,
                   completed_buckets, cleared_games, existing_matchups,
                   placed_matchups, late_slots, unplaced_teams, available_slots>>
passVars == <<rp_pc, rp_in, rp_games, rp_teams, violations, teams_to_improve,
              improve_queue, iteration, iteration_improvements, last_fix, swaps_made>>
callVars == <<fn_pc, fn_in, fn_out>>
extVars == <<optimizerVars, passVars, callVars>>
engineVars == <<matchupVars, pipelineVars, extVars>>

\* optimize_from_dict has not been called
OptimizerIdle ==
  /\ op_pc = "idle"
  /\ op_in = [schedule |-> <<>>, blockSize |-> 0, target_week |-> 0,
              optimize_days_since |-> TRUE]
  /\ op_buckets = <<>>
  /\ op_week = 0
  /\ optimized_schedule = <<>>
  /\ completed_buckets = <<>>
  /\ cleared_games = <<>>
  /\ existing_matchups = <<>>
  /\ placed_matchups = {}
  /\ late_slots = <<>>
  /\ unplaced_teams = {}
  /\ available_slots = <<>>

\* no repair pass has been called
PassesIdle ==
  /\ rp_pc = "idle"
  /\ rp_in = [pass |-> "", games |-> <<>>, fresh |-> TRUE, config |-> <<>>]
  /\ rp_games = <<>>
  /\ rp_teams = <<>>
  /\ violations = <<>>
  /\ teams_to_improve = <<>>
  /\ improve_queue = <<>>
  /\ iteration = 0
  /\ iteration_improvements = 0
  /\ last_fix = [potential_swaps |-> <<>>, best |-> 0]
  /\ swaps_made = <<>>

\* no function has been called on its own
CallsIdle ==
  /\ fn_pc = "idle"
  /\ fn_in = <<>>
  /\ fn_out = <<>>

ExtIdle == OptimizerIdle /\ PassesIdle /\ CallsIdle

\* generate_matchups has not been called
MatchupsIdle ==
  /\ gm_pc = "idle"
  /\ gm_in = [divSizes |-> <<>>, gamesPerTeam |-> 0, subDivisionCrossover |-> FALSE]
  /\ pool = <<>>
  /\ cnt = <<>>
  /\ keep = <<>>
  /\ per = <<>>
  /\ gm_i = 0
  /\ gm_j = 0

\* run_pipeline has not been called
PipelineIdle ==
  /\ pl_pc = "idle"
  /\ pl_in = [divSizes |-> <<>>, gamesPerTeam |-> 0, subDivisionCrossover |-> FALSE,
              slots_data |-> <<>>]
  /\ pl_slots = <<>>
  /\ matchups = <<>>
  /\ all_matchups = <<>>
  /\ team_states = <<>>
  /\ assigned_games = <<>>
  /\ pl_k = 0
  /\ schedule_df = <<>>


(* ------------------------------ helpers ------------------------------ *)
Max(a, b) == IF a >= b THEN a ELSE b
Min(a, b) == IF a <= b THEN a ELSE b
Abs(x) == IF x < 0 THEN -x ELSE x

RECURSIVE SumSeq(_)
SumSeq(s) == IF s = <<>> THEN 0 ELSE Head(s) + SumSeq(Tail(s))

RECURSIVE SumFun(_, _)
SumFun(f, S) ==
  IF S = {} THEN 0
  ELSE LET x == CHOOSE y \in S : TRUE IN f[x] + SumFun(f, S \ {x})

Range(s) == {s[i] : i \in DOMAIN s}

SelectIdx(s, P(_)) == {i \in DOMAIN s : P(s[i])}

\* Python's round() on a non-negative ratio num/den: half to even.
RoundHalfEven(num, den) ==
  LET q == num \div den
      r == num % den
  IN IF 2 * r < den THEN q
     ELSE IF 2 * r > den THEN q + 1
     ELSE IF q % 2 = 0 THEN q ELSE q + 1

(* ------------------------- teams and divisions ----------------------- *)
TeamCount == SumSeq(cfg.divSizes)
TeamNames == 1 .. TeamCount
DivIdx == DOMAIN cfg.divSizes
DivOffset(d) == SumSeq(SubSeq(cfg.divSizes, 1, d - 1))
\* teams are listed division by division; team_div maps a team to its tag
team_div(t) ==
  DivTags[CHOOSE d \in DivIdx : DivOffset(d) < t /\ t <= DivOffset(d) + cfg.divSizes[d]]
TagsInOrder == [d \in DivIdx |-> DivTags[d]]
TeamsOfTag(tag) == {t \in TeamNames : team_div(t) = tag}
\* the teams of a division in list order
TeamsByDiv(tag) ==
  LET d == CHOOSE e \in DivIdx : DivTags[e] = tag
  IN [i \in 1 .. cfg.divSizes[d] |-> DivOffset(d) + i]

_denorm_div(s) ==
  IF s = "div12" THEN "Tin Super" ELSE IF s = "div8" THEN "Tin South" ELSE s

(* ---------------- dynamic parameters of build_schedule --------------- *)
games_per_team == cfg.K
target_gap_days == Max(5, Min(10, TeamCount \div 3))
min_rest_days == Max(2, Min(4, TeamCount \div 8))
max_idle_days == Max(8, Min(16, TeamCount \div 2))
avoid_back_to_back_opponent == TRUE
balance_home_away == TRUE
balance_weekdays == TRUE
variance_minimization == TRUE
no_interdivision == FALSE

(* ------------------------------ slots -------------------------------- *)
StartOf(s) == s.day * MinutesPerDay + s.tod

classify_bucket(tod) ==
  IF tod < EarlyEndDefault THEN "Early"
  ELSE IF tod < MidEndDefault THEN "Mid" ELSE "Late"

IsSortedByStart(s) ==
  \A i \in 1 .. Len(s) - 1 : StartOf(s[i]) <= StartOf(s[i + 1])

SlotLists ==
  {s \in UNION {[1 .. n -> StartTimes] : n \in 1 .. MaxSlots} : IsSortedByStart(s)}

\* list.sort(key=Start): stable insertion of x into a sorted list
RECURSIVE InsertByStart(_, _)
InsertByStart(x, s) ==
  IF s = <<>> THEN <<x>>
  ELSE IF StartOf(x) < StartOf(Head(s)) THEN <<x>> \o s
  ELSE <<Head(s)>> \o InsertByStart(x, Tail(s))

RECURSIVE SortByStart(_)
SortByStart(s) ==
  IF s = <<>> THEN <<>>
  ELSE InsertByStart(s[Len(s)], SortByStart(SubSeq(s, 1, Len(s) - 1)))

Configs ==
  [divSizes : DivSizeChoices, K : 1 .. MaxK, bsParam : BlockSizeParams,
   strictOnce : BOOLEAN, namesAsc : BOOLEAN]

EmptyFun == [x \in {} |-> 0]

Init ==
  /\ pc = "start"
  /\ cfg \in Configs
  /\ rawSlots \in SlotLists
  /\ block_size = 0
  /\ block_recipe = EmptyFun
  /\ scaled = EmptyFun
  /\ processed_slots = <<>>
  /\ div_rounds = EmptyFun
  /\ div_round_idx = EmptyFun
  /\ games_assigned = <<>>
  /\ used_slot_ids = {}
  /\ played_in_segment = EmptyFun
  /\ team_game_count = EmptyFun
  /\ home_count = EmptyFun
  /\ last_game_time = EmptyFun
  /\ opp_last_week = EmptyFun
  /\ bucket_count = EmptyFun
  /\ weekday_count = EmptyFun
  /\ pair_remaining = EmptyFun
  /\ pair_quota = EmptyFun
  /\ seg_div_remaining = EmptyFun
  /\ cursor = 0
  /\ MatchupsIdle
  /\ PipelineIdle
  /\ ExtIdle

(* --------------------- recipe derivation (246-289) ------------------- *)
RecipeSum(r) == SumFun(r, DOMAIN r)

\* counts = Counter(team_div.values()); keys in order of first appearance
DivCounts == [tag \in Range(TagsInOrder) |-> Cardinality(TeamsOfTag(tag))]

DerivedRecipe == [tag \in DOMAIN DivCounts |-> Max(1, DivCounts[tag] \div 2)]

ScaledRecipe(bs) ==
  LET total == RecipeSum(DerivedRecipe)
  IN [tag \in DOMAIN DerivedRecipe |->
        Max(1, RoundHalfEven(DerivedRecipe[tag] * bs, total))]

\* max(scaled.keys(), key=lambda x: counts[x]): the first key of maximal count
LargestDiv ==
  LET d == CHOOSE e \in DivIdx :
             /\ \A f \in DivIdx : DivCounts[DivTags[f]] <= DivCounts[DivTags[e]]
             /\ \A f \in DivIdx : f < e => DivCounts[DivTags[f]] < DivCounts[DivTags[e]]
  IN DivTags[d]

DeriveRecipe ==
  /\ pc = "start"
  /\ LET bs == IF cfg.bsParam = 0 THEN TeamCount \div 2 ELSE cfg.bsParam
     IN /\ block_size' = bs
        /\ IF RecipeSum(DerivedRecipe) # bs
           THEN /\ scaled' = ScaledRecipe(bs)
                /\ IF RecipeSum(ScaledRecipe(bs)) # bs
                   THEN pc' = "rescale" /\ block_recipe' = block_recipe
                   ELSE pc' = "segment" /\ block_recipe' = ScaledRecipe(bs)
           ELSE /\ scaled' = scaled
                /\ block_recipe' = DerivedRecipe
                /\ pc' = "segment"
  /\ UNCHANGED engineVars
  /\ UNCHANGED <<cfg, rawSlots, processed_slots, div_rounds, div_round_idx,
                 games_assigned, used_slot_ids, played_in_segment,
                 team_game_count, home_count, last_game_time, opp_last_week,
                 bucket_count, weekday_count, pair_remaining, pair_quota,
                 seg_div_remaining, cursor>>

\* one iteration of: while sum(scaled.values()) != self.block_size
RescaleStep ==
  /\ pc = "rescale"
  /\ RecipeSum(scaled) # block_size
  /\ LET nxt == IF RecipeSum(scaled) < block_size
                THEN [scaled EXCEPT ![LargestDiv] = @ + 1]
                ELSE [scaled EXCEPT ![LargestDiv] = Max(1, @ - 1)]
     IN /\ scaled' = nxt
        /\ IF RecipeSum(nxt) = block_size
           THEN pc' = "segment" /\ block_recipe' = nxt
           ELSE pc' = "rescale" /\ block_recipe' = block_recipe
  /\ UNCHANGED engineVars
  /\ UNCHANGED <<cfg, rawSlots, block_size, processed_slots, div_rounds,
                 div_round_idx, games_assigned, used_slot_ids,
                 played_in_segment, team_game_count, home_count,
                 last_game_time, opp_last_week, bucket_count, weekday_count,
                 pair_remaining, pair_quota, seg_div_remaining, cursor>>

(* ------------- slot preprocessing and segmentation (291-315) --------- *)
\* processed_slots: SlotID is the position in the input, then sort by Start
Preprocess(raw) ==
  SortByStart([i \in DOMAIN raw |->
     [SlotID |-> i, day |-> raw[i].day, tod |-> raw[i].tod,
      Bucket |-> classify_bucket(raw[i].tod)]])

RecipeKeys == IF block_recipe = EmptyFun THEN <<>> ELSE TagsInOrder
\* sorted(self.block_recipe.keys()): "div12" sorts before "div8"
SortedRecipeKeys == RecipeKeys

\* _segment_and_assign_divisions: per_block_counts
PerBlockCounts ==
  LET total == RecipeSum(block_recipe)
      normalized == [d \in DOMAIN block_recipe |->
                       (block_recipe[d] * block_size) \div total]
      rem == block_size - RecipeSum(normalized)
      order == SortedRecipeKeys
      extra(d) == Cardinality({i \in 0 .. rem - 1 : order[(i % Len(order)) + 1] = d})
  IN IF total # block_size
     THEN [d \in DOMAIN block_recipe |-> normalized[d] + extra(d)]
     ELSE block_recipe

\* the interleaved template: passes over the recipe keys while quota remains
RECURSIVE BuildTemplate(_, _, _)
BuildTemplate(remain, template, k) ==
  IF Len(template) >= block_size THEN template
  ELSE LET d == RecipeKeys[k]
           nk == IF k = Len(RecipeKeys) THEN 1 ELSE k + 1
       IN IF remain[d] > 0
          THEN BuildTemplate([remain EXCEPT ![d] = @ - 1], Append(template, d), nk)
          ELSE BuildTemplate(remain, template, nk)

BlockTemplate == BuildTemplate(PerBlockCounts, <<>>, 1)

_segment_and_assign_divisions(slots) ==
  [i \in DOMAIN slots |->
     LET seg == (i - 1) \div block_size
         k == (i - 1) % block_size
     IN [SlotID |-> slots[i].SlotID, day |-> slots[i].day, tod |-> slots[i].tod,
         Bucket |-> slots[i].Bucket, Segment |-> seg,
         AssignedDivision |->
           IF block_recipe = EmptyFun THEN "All"
           ELSE BlockTemplate[(k % Len(BlockTemplate)) + 1]]]

MaxSeg == processed_slots[Len(processed_slots)].Segment
Segments == 0 .. MaxSeg
SlotsOfSeg(seg) == SelectSeq(processed_slots, LAMBDA s : s.Segment = seg)

Segment ==
  /\ pc = "segment"
  /\ processed_slots' = _segment_and_assign_divisions(Preprocess(rawSlots))
  /\ pc' = "strict_setup"
  /\ UNCHANGED engineVars
  /\ UNCHANGED <<cfg, rawSlots, block_size, block_recipe, scaled, div_rounds,
                 div_round_idx, games_assigned, used_slot_ids,
                 played_in_segment, team_game_count, home_count,
                 last_game_time, opp_last_week, bucket_count, weekday_count,
                 pair_remaining, pair_quota, seg_div_remaining, cursor>>

(* ------------------------ round_robin_pairs (141-166) ---------------- *)
BYE == 0

\* a rotation that leaves the circle where it is
Rotate_Stuck(arr) == arr

\* arr = [arr[0]] + [arr[-1]] + arr[1:-1]
Rotate(arr) ==
  <<arr[1], arr[Len(arr)]>> \o SubSeq(arr, 2, Len(arr) - 1)

RoundPairs(arr) ==
  LET half == Len(arr) \div 2
      all == [i \in 1 .. half |-> <<arr[i], arr[Len(arr) + 1 - i]>>]
  IN SelectSeq(all, LAMBDA p : p[1] # BYE /\ p[2] # BYE)

RECURSIVE CircleRounds(_, _)
CircleRounds(arr, k) ==
  IF k = 0 THEN <<>>
  ELSE <<RoundPairs(arr)>> \o CircleRounds(Rotate(arr), k - 1)

\* perm is the order random.shuffle leaves the teams after the anchor in
round_robin_pairs(teams, perm) ==
  LET arr0 == IF Len(teams) % 2 = 1 THEN Append(teams, BYE) ELSE teams
      n == Len(arr0)
      arr == IF n > 2
             THEN <<arr0[1]>> \o [i \in 1 .. n - 1 |-> arr0[perm[i] + 1]]
             ELSE arr0
      rounds == CircleRounds(arr, n - 1)
  IN [r \in DOMAIN rounds |->
        IF (r - 1) % 2 = 1
        THEN [j \in DOMAIN rounds[r] |-> <<rounds[r][j][2], rounds[r][j][1]>>]
        ELSE rounds[r]]

choose_home_away(a, b, hc) == IF hc[a] <= hc[b] THEN <<a, b>> ELSE <<b, a>>

(* ---------------------- _strict_block_fill (612-757) ----------------- *)
StrictEnabled == cfg.strictOnce /\ block_recipe # EmptyFun /\ block_size # 0

Game(s, home, away, div, ph) ==
  [Date |-> s.day, SlotID |-> s.SlotID, HomeTeam |-> home, AwayTeam |-> away,
   Division |-> div, phase |-> ph]

\* the orders random.shuffle may leave the teams after the anchor in; every
\* call reseeds with the same seed, so lists of equal length get equal orders
ShuffleChoices ==
  {sh \in [DivIdx -> UNION {Permutations(1 .. m) : m \in 1 .. 3}] :
     /\ \A d \in DivIdx :
          LET n == cfg.divSizes[d] + (cfg.divSizes[d] % 2)
          IN /\ DOMAIN sh[d] = 1 .. n - 1
             /\ n <= 2 => \A i \in 1 .. n - 1 : sh[d][i] = i
     /\ \A d, e \in DivIdx : cfg.divSizes[d] = cfg.divSizes[e] => sh[d] = sh[e]}

StrictSetup ==
  /\ pc = "strict_setup"
  /\ last_game_time' = [t \in TeamNames |-> None]
  /\ opp_last_week' = [t \in TeamNames |-> None]
  /\ home_count' = [t \in TeamNames |-> 0]
  /\ bucket_count' = [t \in TeamNames |-> [b \in Buckets |-> 0]]
  /\ weekday_count' = [t \in TeamNames |-> [w \in 0 .. 6 |-> 0]]
  /\ team_game_count' = [t \in TeamNames |-> 0]
  /\ played_in_segment' = [seg \in Segments |-> {}]
  /\ IF StrictEnabled
     THEN /\ \E sh \in ShuffleChoices :
               div_rounds' = [tag \in DOMAIN block_recipe |->
                  LET d == CHOOSE e \in DivIdx : DivTags[e] = tag
                  IN round_robin_pairs(TeamsByDiv(tag), sh[d])]
          /\ div_round_idx' = [tag \in DOMAIN block_recipe |-> 0]
          /\ pc' = "strict"
     ELSE /\ UNCHANGED <<div_rounds, div_round_idx>>
          /\ pc' = "quota"
  /\ cursor' = 0
  /\ UNCHANGED engineVars
  /\ UNCHANGED <<cfg, rawSlots, block_size, block_recipe, scaled,
                 processed_slots, games_assigned, used_slot_ids,
                 pair_remaining, pair_quota, seg_div_remaining>>

\* want[d] == recipe[d] for every recipe division, in a block of full size
BlockMatches(seg) ==
  LET slots == SlotsOfSeg(seg)
      want(d) == Cardinality({i \in DOMAIN slots : slots[i].AssignedDivision = d})
  IN /\ Len(slots) = block_size
     /\ \A d \in DOMAIN block_recipe : want(d) = block_recipe[d]
     /\ RecipeSum(block_recipe) = block_size

BlockWouldExceed(counts) ==
  \E d \in DOMAIN block_recipe :
    \E t \in TeamsOfTag(d) : counts[t] + 1 > games_per_team

\* the body of "for d, games_needed in self.block_recipe.items()" for the
\* k-th recipe division; st carries the filler's state, st.raised a ValueError
StrictDiv(d, seg, st) ==
  LET slots == SlotsOfSeg(seg)
      need == block_recipe[d]
  IN IF d \notin DOMAIN div_rounds THEN [st EXCEPT !.raised = TRUE]
     ELSE
     LET rr == div_rounds[d]
         r_idx == st.ridx[d] % Len(rr)
         round_pairs == rr[r_idx + 1]
         games_to_use == SubSeq(round_pairs, 1, Min(need, Len(round_pairs)))
         d_slots == SelectSeq(slots,
                      LAMBDA s : s.AssignedDivision = d /\ s.SlotID \notin st.used)
     IN IF Len(games_to_use) # need THEN [st EXCEPT !.raised = TRUE]
        ELSE IF Len(d_slots) < need THEN [st EXCEPT !.raised = TRUE]
        ELSE
        LET ha(i) == choose_home_away(games_to_use[i][1], games_to_use[i][2], home_count)
            new == [i \in 1 .. need |-> Game(d_slots[i], ha(i)[1], ha(i)[2],
                                              _denorm_div(d), "strict")]
            placed == {ha(i)[1] : i \in 1 .. need} \cup {ha(i)[2] : i \in 1 .. need}
        IN [games |-> st.games \o new,
            used |-> st.used \cup {d_slots[i].SlotID : i \in 1 .. need},
            played |-> st.played \cup placed,
            counts |-> [t \in TeamNames |->
                          st.counts[t] + Cardinality({i \in 1 .. need :
                                           t = ha(i)[1] \/ t = ha(i)[2]})],
            ridx |-> [st.ridx EXCEPT ![d] = @ + 1],
            raised |-> FALSE]

RECURSIVE StrictDivs(_, _, _)
StrictDivs(k, seg, st) ==
  IF k > Len(RecipeKeys) \/ st.raised THEN st
  ELSE StrictDivs(k + 1, seg, StrictDiv(RecipeKeys[k], seg, st))

\* one iteration of "for seg in sorted(seg_slots.keys())"
StrictBlock ==
  /\ pc = "strict"
  /\ IF cursor > MaxSeg \/ \A t \in TeamNames : team_game_count[t] >= games_per_team
     THEN /\ pc' = "quota"
          /\ UNCHANGED <<cursor, games_assigned, used_slot_ids, played_in_segment,
                         team_game_count, div_round_idx>>
     ELSE IF ~BlockMatches(cursor) \/ BlockWouldExceed(team_game_count)
     THEN /\ cursor' = cursor + 1
          /\ UNCHANGED <<pc, games_assigned, used_slot_ids, played_in_segment,
                         team_game_count, div_round_idx>>
     ELSE LET st == StrictDivs(1, cursor,
                      [games |-> games_assigned, used |-> used_slot_ids,
                       played |-> played_in_segment[cursor],
                       counts |-> team_game_count, ridx |-> div_round_idx,
                       raised |-> FALSE])
          IN /\ games_assigned' = st.games
             /\ used_slot_ids' = st.used
             /\ played_in_segment' = [played_in_segment EXCEPT ![cursor] = st.played]
             /\ team_game_count' = st.counts
             /\ div_round_idx' = st.ridx
             /\ pc' = IF st.raised THEN "raised" ELSE pc
             /\ cursor' = cursor + 1
  /\ UNCHANGED engineVars
  /\ UNCHANGED <<cfg, rawSlots, block_size, block_recipe, scaled,
                 processed_slots, div_rounds, home_count, last_game_time,
                 opp_last_week, bucket_count, weekday_count, pair_remaining,
                 pair_quota, seg_div_remaining>>

(* ----------------------- _build_pair_quota (819-867) ----------------- *)
\* all_matchups of a division: (arr[i], arr[j]) for i < j, in loop order
RECURSIVE PairsFrom(_, _, _)
PairsFrom(arr, i, j) ==
  IF i >= Len(arr) THEN <<>>
  ELSE IF j > Len(arr) THEN PairsFrom(arr, i + 1, i + 2)
  ELSE <<(<<arr[i], arr[j]>>)>> \o PairsFrom(arr, i, j + 1)

AllMatchups(arr) == PairsFrom(arr, 1, 2)

\* min(all_matchups, key=lambda pair: pair_target[pair]): the first minimum
FirstMinPair(pairs, target) ==
  LET i == CHOOSE k \in DOMAIN pairs :
             /\ \A m \in DOMAIN pairs : target[pairs[k]] <= target[pairs[m]]
             /\ \A m \in DOMAIN pairs : m < k => target[pairs[k]] < target[pairs[m]]
  IN pairs[i]

RECURSIVE DistributeExtra(_, _, _)
DistributeExtra(target, pairs, extra_games) ==
  IF extra_games <= 0 THEN target
  ELSE DistributeExtra([target EXCEPT ![FirstMinPair(pairs, target)] = @ + 1],
                       pairs, extra_games - 1)

\* the quota table of one division of n teams
DivisionQuota(arr, K) ==
  LET n == Len(arr)
      total_games_needed == n * K
      unique_matchups == (n * (n - 1)) \div 2
      base_games_per_matchup == total_games_needed \div (2 * unique_matchups)
      extra_games == total_games_needed - (2 * unique_matchups * base_games_per_matchup)
      pairs == AllMatchups(arr)
      base == [p \in Range(pairs) |-> base_games_per_matchup]
  IN DistributeExtra(base, pairs, extra_games)

_build_pair_quota ==
  LET tagOf(p) == team_div(p[1])
      keys == UNION {Range(AllMatchups(TeamsByDiv(tag))) :
                       tag \in {DivTags[d] : d \in {e \in DivIdx : cfg.divSizes[e] >= 2}}}
  IN [p \in keys |-> DivisionQuota(TeamsByDiv(tagOf(p)), games_per_team)[p]]

\* variant: the greedy loop walks every slot, used or not
RemainingSlots_IgnoringUsed ==
  processed_slots

RemainingSlots ==
  SelectSeq(processed_slots, LAMBDA s : s.SlotID \notin used_slot_ids)

HasGame(games, s) == \E i \in DOMAIN games : games[i].SlotID = s.SlotID

\* the next slot after position i of processed_slots without a game; 0: none
NextUnused(i, games) ==
  LET U == {j \in DOMAIN processed_slots : j > i /\ ~HasGame(games, processed_slots[j])}
  IN IF U = {} THEN 0 ELSE CHOOSE j \in U : \A k \in U : j <= k

\* where build_schedule goes when the greedy loop is over (523-532)
AfterGreedy(games) ==
  IF NextUnused(0, games) = 0 THEN "final" ELSE "force"

BuildQuota ==
  /\ pc = "quota"
  /\ pair_remaining' = _build_pair_quota
  /\ pair_quota' = _build_pair_quota
  /\ seg_div_remaining' =
       [seg \in Segments |-> [d \in Range(DivTags) |->
          Cardinality({i \in DOMAIN RemainingSlots :
             /\ RemainingSlots[i].Segment = seg
             /\ RemainingSlots[i].AssignedDivision = d})]]
  /\ IF RemainingSlots = <<>>
     THEN pc' = AfterGreedy(games_assigned) /\ cursor' = NextUnused(0, games_assigned)
     ELSE pc' = "greedy" /\ cursor' = 1
  /\ UNCHANGED engineVars
  /\ UNCHANGED <<cfg, rawSlots, block_size, block_recipe, scaled,
                 processed_slots, div_rounds, div_round_idx, games_assigned,
                 used_slot_ids, played_in_segment, team_game_count, home_count,
                 last_game_time, opp_last_week, bucket_count, weekday_count>>

(* ----------------------- greedy loop (393-521) ----------------------- *)
\* team names are compared as strings: in list order when cfg.namesAsc
NameLess(a, b) == IF cfg.namesAsc THEN a < b ELSE a > b
PairKey(a, b) == IF NameLess(a, b) THEN <<a, b>> ELSE <<b, a>>

same_div(a, b) ==
  IF ~no_interdivision
  THEN team_div(a) = team_div(b) \/ team_div(a) = "unknown" \/ team_div(b) = "unknown"
  ELSE team_div(a) = team_div(b)

\* variant: any later slot is accepted, whatever the rest
can_play_NoRest(slot_start, last) ==
  IF last = None THEN TRUE
  ELSE slot_start - last >= 0

can_play(slot_start, last) ==
  IF last = None THEN TRUE
  ELSE slot_start - last >= min_rest_days * MinutesPerDay

\* iter_candidate_pairs: the pairs with remaining quota
CandidatePairs == {p \in DOMAIN pair_remaining : pair_remaining[p] > 0}

\* variant: the pick does not consult played_in_segment
Eligible_NoSegmentCheck(slot, p, relax) ==
  LET a == p[1]
      b == p[2]
      slot_div == slot.AssignedDivision
  IN /\ ~(team_game_count[a] >= games_per_team \/ team_game_count[b] >= games_per_team)
     /\ slot_div # "All" => (team_div(a) = slot_div /\ team_div(b) = slot_div)
     /\ same_div(a, b)
     /\ ~relax =>
          /\ can_play(StartOf(slot), last_game_time[a])
          /\ can_play(StartOf(slot), last_game_time[b])
          /\ ~(avoid_back_to_back_opponent
               /\ (opp_last_week[a] = b \/ opp_last_week[b] = a))

Eligible(slot, p, relax) ==
  LET a == p[1]
      b == p[2]
      seg == slot.Segment
      slot_div == slot.AssignedDivision
  IN /\ ~(team_game_count[a] >= games_per_team \/ team_game_count[b] >= games_per_team)
     /\ slot_div # "All" => (team_div(a) = slot_div /\ team_div(b) = slot_div)
     /\ ~(a \in played_in_segment[seg] \/ b \in played_in_segment[seg])
     /\ same_div(a, b)
     /\ ~relax =>
          /\ can_play(StartOf(slot), last_game_time[a])
          /\ can_play(StartOf(slot), last_game_time[b])
          /\ ~(avoid_back_to_back_opponent
               /\ (opp_last_week[a] = b \/ opp_last_week[b] = a))

MinBucket(t) ==
  CHOOSE m \in {bucket_count[t][k] : k \in Buckets} :
    \A k \in Buckets : m <= bucket_count[t][k]

\* the score of pick, times ScoreScale
Score(slot, p, relax) ==
  LET a == p[1]
      b == p[2]
      seg == slot.Segment
      gapPen(t) ==
        IF last_game_time[t] # None
        THEN LET gap == StartOf(slot) - last_game_time[t]
             IN Abs(gap - target_gap_days * MinutesPerDay)
                  * ((3 * ScoreScale) \div (2 * MinutesPerDay))
                + (IF gap > max_idle_days * MinutesPerDay THEN 1000 * ScoreScale ELSE 0)
        ELSE 0
      relaxBonus ==
        IF slot.AssignedDivision # "All"
        THEN LET pa == a \notin played_in_segment[seg]
                 pb == b \notin played_in_segment[seg]
             IN IF pa /\ pb THEN 20 * ScoreScale
                ELSE IF pa \/ pb THEN 8 * ScoreScale ELSE 0
        ELSE 0
      var(t) == IF bucket_count[t][slot.Bucket] = MinBucket(t) THEN 2 * ScoreScale ELSE 0
      dow == slot.day % 7
      wd(t) == weekday_count[t][dow] * (ScoreScale \div 2)
      key == PairKey(a, b)
  IN 1000 * ScoreScale
     + (IF ~relax THEN 0 - gapPen(a) - gapPen(b) ELSE relaxBonus)
     + (IF variance_minimization THEN var(a) + var(b) ELSE 0)
     - (IF balance_weekdays THEN wd(a) + wd(b) ELSE 0)
     - (IF balance_home_away
        THEN Abs(home_count[a] - home_count[b]) * (ScoreScale \div 5) ELSE 0)
     + (IF key \in DOMAIN pair_remaining
        THEN pair_remaining[key] * (ScoreScale \div 10) ELSE 0)

\* the pairs pick(relax) can return: the shuffled order decides among the
\* eligible pairs of maximal score
pick(slot, relax) ==
  LET E == {p \in CandidatePairs : Eligible(slot, p, relax)}
  IN {p \in E : \A q \in E : Score(slot, q, relax) <= Score(slot, p, relax)}

\* coverage pressure (457-467)
RelaxAllowed(slot) ==
  LET seg == slot.Segment
      slot_div == slot.AssignedDivision
      div_team_total == Cardinality(TeamsOfTag(slot_div))
      seen == Cardinality({t \in played_in_segment[seg] : team_div(t) = slot_div})
      needed == div_team_total - seen
      possible_left == seg_div_remaining[seg][slot_div] * 2
  IN slot_div # "All" /\ needed > possible_left

Commit(slot, p, ph) ==
  LET a == p[1]
      b == p[2]
      seg == slot.Segment
      slot_div == slot.AssignedDivision
      ha == choose_home_away(a, b, home_count)
      key == PairKey(a, b)
      dow == slot.day % 7
      games == Append(games_assigned,
                 Game(slot, ha[1], ha[2], _denorm_div(team_div(ha[1])), ph))
  IN /\ games_assigned' = games
     /\ last_game_time' = [last_game_time EXCEPT ![a] = StartOf(slot), ![b] = StartOf(slot)]
     /\ opp_last_week' = [opp_last_week EXCEPT ![a] = b, ![b] = a]
     /\ home_count' = [home_count EXCEPT ![ha[1]] = @ + 1]
     /\ bucket_count' = [bucket_count EXCEPT ![a][slot.Bucket] = @ + 1,
                                              ![b][slot.Bucket] = @ + 1]
     /\ weekday_count' = [weekday_count EXCEPT ![a][dow] = @ + 1, ![b][dow] = @ + 1]
     /\ played_in_segment' = [played_in_segment EXCEPT ![seg] = @ \cup {a, b}]
     /\ seg_div_remaining' =
          IF slot_div # "All"
          THEN [seg_div_remaining EXCEPT ![seg][slot_div] = Max(0, @ - 1)]
          ELSE seg_div_remaining
     /\ pair_remaining' =
          IF key \in DOMAIN pair_remaining /\ pair_remaining[key] > 0
          THEN [pair_remaining EXCEPT ![key] = @ - 1]
          ELSE pair_remaining
     /\ team_game_count' = [team_game_count EXCEPT ![a] = @ + 1, ![b] = @ + 1]
     /\ IF cursor = Len(RemainingSlots)
        THEN pc' = AfterGreedy(games) /\ cursor' = NextUnused(0, games)
        ELSE pc' = "greedy" /\ cursor' = cursor + 1

\* one iteration of "for slot in remaining_slots"
GreedySlot ==
  /\ pc = "greedy"
  /\ LET slot == RemainingSlots[cursor]
     IN IF pick(slot, FALSE) # {}
        THEN \E p \in pick(slot, FALSE) : Commit(slot, p, "greedy")
        ELSE IF RelaxAllowed(slot) /\ pick(slot, TRUE) # {}
        THEN \E p \in pick(slot, TRUE) : Commit(slot, p, "relaxed")
        ELSE /\ IF cursor = Len(RemainingSlots)
                THEN /\ pc' = AfterGreedy(games_assigned)
                     /\ cursor' = NextUnused(0, games_assigned)
                ELSE pc' = "greedy" /\ cursor' = cursor + 1
             /\ UNCHANGED <<games_assigned, last_game_time, opp_last_week,
                            home_count, bucket_count, weekday_count,
                            played_in_segment, seg_div_remaining,
                            pair_remaining, team_game_count>>
  /\ UNCHANGED engineVars
  /\ UNCHANGED <<cfg, rawSlots, block_size, block_recipe, scaled,
                 processed_slots, div_rounds, div_round_idx, used_slot_ids,
                 pair_quota>>

(* --------------------- _force_fill_remaining (759-817) --------------- *)
\* candidates.sort(key=team_game_count): the candidate that sorts first
FirstByCount(C) ==
  CHOOSE t \in C :
    \A u \in C : team_game_count[t] < team_game_count[u]
                 \/ (team_game_count[t] = team_game_count[u] /\ t <= u)

\* one iteration of "for s in remaining_slots" over the leftover slots
ForceSlot ==
  /\ pc = "force"
  /\ LET s == processed_slots[cursor]
         seg == s.Segment
         div == s.AssignedDivision
         candidates ==
           {t \in TeamNames :
              /\ div # "All" => team_div(t) = div
              /\ team_game_count[t] < games_per_team
              /\ t \notin played_in_segment[seg]}
     IN IF Cardinality(candidates) < 2
        THEN /\ cursor' = NextUnused(cursor, games_assigned)
             /\ pc' = IF NextUnused(cursor, games_assigned) = 0 THEN "final" ELSE "force"
             /\ UNCHANGED <<games_assigned, home_count, team_game_count,
                            played_in_segment>>
        ELSE LET a == FirstByCount(candidates)
                 b == FirstByCount(candidates \ {a})
                 ha == choose_home_away(a, b, home_count)
                 games == Append(games_assigned,
                            Game(s, ha[1], ha[2], _denorm_div(team_div(ha[1])), "force"))
             IN /\ games_assigned' = games
                /\ home_count' = [home_count EXCEPT ![ha[1]] = @ + 1]
                /\ team_game_count' = [team_game_count EXCEPT ![a] = @ + 1, ![b] = @ + 1]
                /\ played_in_segment' = [played_in_segment EXCEPT ![seg] = @ \cup {a, b}]
                /\ cursor' = NextUnused(cursor, games)
                /\ pc' = IF NextUnused(cursor, games) = 0 THEN "final" ELSE "force"
  /\ UNCHANGED engineVars
  /\ UNCHANGED <<cfg, rawSlots, block_size, block_recipe, scaled,
                 processed_slots, div_rounds, div_round_idx, used_slot_ids,
                 last_game_time, opp_last_week, bucket_count, weekday_count,
                 pair_remaining, pair_quota, seg_div_remaining>>

(* ------------------- final passes and validators (531-557) ----------- *)
_can_swap_team(games, i, old_team, new_team) ==
  LET game == games[i]
      other_team == IF game.HomeTeam = old_team THEN game.AwayTeam ELSE game.HomeTeam
  IN \A j \in DOMAIN games :
       games[j] # game =>
         /\ ~(games[j].Date = game.Date
              /\ (games[j].HomeTeam = new_team \/ games[j].AwayTeam = new_team))
         /\ ~((games[j].HomeTeam = new_team /\ games[j].AwayTeam = other_team)
              \/ (games[j].AwayTeam = new_team /\ games[j].HomeTeam = other_team))

\* the first game _aggressive_final_fill swaps under_team into; 0: none
SwapIndex(games, under_team, over_teams) ==
  LET homeCase(i) == games[i].HomeTeam \in over_teams /\ games[i].AwayTeam # under_team
      awayCase(i) == games[i].AwayTeam \in over_teams /\ games[i].HomeTeam # under_team
      hit(i) == \/ homeCase(i) /\ _can_swap_team(games, i, games[i].HomeTeam, under_team)
                \/ ~homeCase(i) /\ awayCase(i)
                   /\ _can_swap_team(games, i, games[i].AwayTeam, under_team)
      H == {i \in DOMAIN games : hit(i)}
  IN IF H = {} THEN 0 ELSE CHOOSE i \in H : \A j \in H : i <= j

SwapInto(games, i, under_team, over_teams) ==
  IF games[i].HomeTeam \in over_teams /\ games[i].AwayTeam # under_team
  THEN [games EXCEPT ![i].HomeTeam = under_team]
  ELSE [games EXCEPT ![i].AwayTeam = under_team]

SwappedOut(games, i, under_team, over_teams) ==
  IF games[i].HomeTeam \in over_teams /\ games[i].AwayTeam # under_team
  THEN games[i].HomeTeam ELSE games[i].AwayTeam

\* "for _ in range(needed)" for one under_team
RECURSIVE AggressiveRange(_, _, _, _)
AggressiveRange(st, under_team, over_teams, k) ==
  IF k <= 0 THEN st
  ELSE LET i == SwapIndex(st.games, under_team, over_teams)
       IN IF i = 0 THEN st
          ELSE LET old == SwappedOut(st.games, i, under_team, over_teams)
               IN AggressiveRange(
                    [games |-> SwapInto(st.games, i, under_team, over_teams),
                     counts |-> [st.counts EXCEPT ![old] = @ - 1,
                                                  ![under_team] = @ + 1]],
                    under_team, over_teams, k - 1)

RECURSIVE AggressiveTeams(_, _, _, _)
AggressiveTeams(st, under_teams, over_teams, t) ==
  IF t > TeamCount THEN st
  ELSE IF t \notin under_teams THEN AggressiveTeams(st, under_teams, over_teams, t + 1)
  ELSE AggressiveTeams(
         AggressiveRange(st, t, over_teams, games_per_team - st.counts[t]),
         under_teams, over_teams, t + 1)

_aggressive_final_fill(games, counts) ==
  LET under_teams == {t \in TeamNames : counts[t] < games_per_team}
      over_teams == {t \in TeamNames : counts[t] > games_per_team}
  IN AggressiveTeams([games |-> games, counts |-> counts], under_teams, over_teams, 1)

GamesOfSeg(games, seg) ==
  SelectSeq(games, LAMBDA g :
    \E i \in DOMAIN processed_slots :
      processed_slots[i].SlotID = g.SlotID /\ processed_slots[i].Segment = seg)

Appearances(glist, t) ==
  Cardinality({i \in DOMAIN glist : glist[i].HomeTeam = t})
  + Cardinality({i \in DOMAIN glist : glist[i].AwayTeam = t})

\* _validate_full_blocks (869-906): TRUE when it raises ValueError
ValidateRaises(games) ==
  /\ StrictEnabled
  /\ \E seg \in Segments :
       LET glist == GamesOfSeg(games, seg)
           divteams(d) ==
             {glist[i].HomeTeam : i \in {j \in DOMAIN glist : glist[j].Division = d}}
             \cup {glist[i].AwayTeam : i \in {j \in DOMAIN glist : glist[j].Division = d}}
           expected(d) ==
             {t \in TeamNames : \E i \in DOMAIN glist :
                glist[i].Division = d /\ (glist[i].HomeTeam = t \/ glist[i].AwayTeam = t)}
       IN /\ Len(glist) = block_size
          /\ \/ \E t \in TeamNames : Appearances(glist, t) > 1
             \/ \E d \in DOMAIN block_recipe :
                  Cardinality(divteams(d)) # Cardinality(expected(d))

\* _validate_game_counts -> _fix_game_count_imbalances (908-968): at most one swap
_fix_game_count_imbalances(games) ==
  LET actual(t) == Appearances(games, t)
      present == {t \in TeamNames : actual(t) > 0}
      over_teams == {t \in present : actual(t) > games_per_team}
      under_teams == {t \in present : actual(t) < games_per_team}
      hits == {c \in over_teams \X under_teams : SwapIndex(games, c[2], {c[1]}) # 0}
  IN IF hits = {} THEN games
     ELSE LET c == CHOOSE x \in hits :
                     \A y \in hits : x[1] < y[1] \/ (x[1] = y[1] /\ x[2] <= y[2])
          IN SwapInto(games, SwapIndex(games, c[2], {c[1]}), c[2], {c[1]})

Finalize ==
  /\ pc = "final"
  /\ LET st == _aggressive_final_fill(games_assigned, team_game_count)
     IN /\ team_game_count' = st.counts
        /\ IF ValidateRaises(st.games)
           THEN pc' = "raised" /\ games_assigned' = st.games
           ELSE pc' = "done" /\ games_assigned' = _fix_game_count_imbalances(st.games)
  /\ cursor' = 0
  /\ UNCHANGED engineVars
  /\ UNCHANGED <<cfg, rawSlots, block_size, block_recipe, scaled,
                 processed_slots, div_rounds, div_round_idx, used_slot_ids,
                 played_in_segment, home_count, last_game_time, opp_last_week,
                 bucket_count, weekday_count, pair_remaining, pair_quota,
                 seg_div_remaining>>

Next ==
  \/ DeriveRecipe \/ RescaleStep \/ Segment \/ StrictSetup \/ StrictBlock
  \/ BuildQuota \/ GreedySlot \/ ForceSlot \/ Finalize

Spec == Init /\ [][Next]_vars

(* ===================================================================== *)
(* Properties of build_schedule (specification Spec)                     *)
(* ===================================================================== *)
Returned == pc = "done"
GameTeams(g) == {g.HomeTeam, g.AwayTeam}
GameIdx == DOMAIN games_assigned
PhasesUsed == {games_assigned[i].phase : i \in GameIdx}
SegmentOfGame(g) ==
  LET i == CHOOSE k \in DOMAIN processed_slots : processed_slots[k].SlotID = g.SlotID
  IN processed_slots[i].Segment

\* C1: in the returned schedule no team appears in two games on one date.
C1_NoTeamTwiceOnADate ==
  Returned =>
    \A i, j \in GameIdx :
      (i # j /\ games_assigned[i].Date = games_assigned[j].Date)
        => GameTeams(games_assigned[i]) \cap GameTeams(games_assigned[j]) = {}

C3_ExactlyOncePerRecipeBlock ==
  (Returned /\ StrictEnabled) =>
    \A seg \in Segments :
      BlockMatches(seg) =>
        \A d \in DOMAIN block_recipe : \A t \in TeamsOfTag(d) :
          Appearances(GamesOfSeg(games_assigned, seg), t) = 1

\* C4: in the returned schedule every SlotID is referenced by at most one game.
C4_SlotUsedAtMostOnce ==
  Returned =>
    \A i, j \in GameIdx :
      i # j => games_assigned[i].SlotID # games_assigned[j].SlotID

\* a returned schedule holding games of the strict filler and of the force fill
C4_Witness ==
  /\ Returned
  /\ Len(games_assigned) >= 2
  /\ {"strict", "force"} \subseteq PhasesUsed

\* C5: when the schedule that reaches _validate_full_blocks has a full
\* recipe-matching block with a recipe-division team in zero or several games,
\* the validator raises.
C5_ValidatorRejectsBadBlocks ==
  (pc = "final" /\ StrictEnabled) =>
    LET games == _aggressive_final_fill(games_assigned, team_game_count).games
    IN (\E seg \in Segments :
          /\ BlockMatches(seg)
          /\ \E d \in DOMAIN block_recipe : \E t \in TeamsOfTag(d) :
               Appearances(GamesOfSeg(games, seg), t) # 1)
       => ValidateRaises(games)

\* C6: in the returned schedule no team appears in two games of one segment.
C6_AtMostOncePerSegment ==
  Returned =>
    \A seg \in Segments : \A t \in TeamNames :
      Appearances(GamesOfSeg(games_assigned, seg), t) <= 1

\* a returned schedule with two games of one segment placed after the strict
\* filler, by the greedy loop and by the force fill
C6_Witness ==
  /\ Returned
  /\ \E i, j \in GameIdx :
       /\ i # j
       /\ SegmentOfGame(games_assigned[i]) = SegmentOfGame(games_assigned[j])
       /\ games_assigned[i].phase \in {"greedy", "relaxed"}
       /\ games_assigned[j].phase = "force"

\* C8: for every division with n * K even, the quotas of its pairs sum to n * K / 2.
C8_QuotaSumIsHalfNK ==
  pair_quota # EmptyFun =>
    \A d \in DivIdx :
      LET n == cfg.divSizes[d]
          P == {p \in DOMAIN pair_quota : team_div(p[1]) = DivTags[d]}
      IN (n * games_per_team) % 2 = 0
           => 2 * SumFun(pair_quota, P) = n * games_per_team

GamesBetween(p) ==
  Cardinality({i \in GameIdx : GameTeams(games_assigned[i]) = {p[1], p[2]}})

\* C9: in the returned schedule no pair of teams has more games than its quota.
C9_PairGamesWithinQuota ==
  Returned => \A p \in DOMAIN pair_quota : GamesBetween(p) <= pair_quota[p]

\* build_schedule has not been called
SchedulerIdle ==
  /\ pc = "idle"
  /\ cfg = [divSizes |-> <<2>>, K |-> 1, bsParam |-> 0, strictOnce |-> TRUE, namesAsc |-> TRUE]
  /\ rawSlots = <<>>
  /\ block_size = 0
  /\ block_recipe = EmptyFun
  /\ scaled = EmptyFun
  /\ processed_slots = <<>>
  /\ div_rounds = EmptyFun
  /\ div_round_idx = EmptyFun
  /\ games_assigned = <<>>
  /\ used_slot_ids = {}
  /\ played_in_segment = EmptyFun
  /\ team_game_count = EmptyFun
  /\ home_count = EmptyFun
  /\ last_game_time = EmptyFun
  /\ opp_last_week = EmptyFun
  /\ bucket_count = EmptyFun
  /\ weekday_count = EmptyFun
  /\ pair_remaining = EmptyFun
  /\ pair_quota = EmptyFun
  /\ seg_div_remaining = EmptyFun
  /\ cursor = 0

(* ===================================================================== *)
(* engine/scheduler.py: generate_matchups and _fit_games_per_team        *)
(* ===================================================================== *)
MaxTeams == 5
MaxGames == 3

\* the divisions of a call: one or two, each with at least one team
GmDivSizeChoices ==
  {<<n>> : n \in 1..MaxTeams}
    \cup {<<a, b>> : a \in 1..MaxTeams, b \in 1..MaxTeams}
GmInputs ==
  {c \in [divSizes : GmDivSizeChoices, gamesPerTeam : 1..MaxGames,
          subDivisionCrossover : BOOLEAN] : SumSeq(c.divSizes) <= MaxTeams}

RECURSIVE Concat(_)
Concat(ss) == IF ss = <<>> THEN <<>> ELSE Head(ss) \o Concat(Tail(ss))

GmDivIdx == DOMAIN gm_in.divSizes
GmOffset(d) == SumSeq(SubSeq(gm_in.divSizes, 1, d - 1))
\* by_div[div_name]: the team names of division d, in input order, which is
\* also their sorted order
GmNames(d) == [k \in 1..gm_in.divSizes[d] |-> GmOffset(d) + k]
GmTeams == 1..SumSeq(gm_in.divSizes)

Matchup(division, home, away, round_index) ==
  [division |-> division, home |-> home, away |-> away, round_index |-> round_index]

\* arr = [arr[0]] + [arr[-1]] + arr[1:-1]
RRRotate(arr) == <<arr[1], arr[Len(arr)]>> \o SubSeq(arr, 2, Len(arr) - 1)

\* the pairs (arr[i], arr[-(i+1)]) of one round, BYE pairs dropped
RRPairs(arr) ==
  LET n == Len(arr)
      all == [i \in 1..(n \div 2) |-> <<arr[i], arr[n + 1 - i]>>]
  IN SelectSeq(all, LAMBDA p : p[1] # BYE /\ p[2] # BYE)

RECURSIVE RRRounds(_, _)
RRRounds(arr, k) ==
  IF k <= 0 THEN <<>> ELSE <<RRPairs(arr)>> \o RRRounds(RRRotate(arr), k - 1)

_round_robin(teams) ==
  LET t == IF Len(teams) % 2 = 1 THEN Append(teams, BYE) ELSE teams
  IN RRRounds(t, Len(t) - 1)

\* intra-division rounds (135-145)
IntraOf(d) ==
  LET rr == _round_robin(GmNames(d))
  IN Concat([r \in 1..Len(rr) |->
       [j \in 1..Len(rr[r]) |-> Matchup(<<d>>, rr[r][j][1], rr[r][j][2], r)]])
Intra == Concat([d \in GmDivIdx |-> IntraOf(d)])
RoundIdx ==
  LET lens == {1} \cup {Len(_round_robin(GmNames(d))) : d \in GmDivIdx}
  IN CHOOSE m \in lens : \A x \in lens : x <= m

\* optional cross-division matchups (147-157)
CrossOf(i, j) ==
  LET A == GmNames(i)
      B == GmNames(j)
  IN Concat([x \in 1..Len(A) |->
       [y \in 1..Len(B) |-> Matchup(<<i, j>>, A[x], B[y], RoundIdx + 1)]])
Cross ==
  IF gm_in.subDivisionCrossover /\ Len(gm_in.divSizes) > 1
  THEN LET nd == Len(gm_in.divSizes)
       IN Concat([i \in 1..nd |-> Concat([k \in 1..(nd - i) |-> CrossOf(i, i + k)])])
  ELSE <<>>

\* cnt[m.home] += 1; cnt[m.away] += 1 over the pool (165-167)
CountOf(p) ==
  LET T == {p[i].home : i \in DOMAIN p} \cup {p[i].away : i \in DOMAIN p}
  IN [t \in T |->
        Cardinality({i \in DOMAIN p : p[i].home = t})
          + Cardinality({i \in DOMAIN p : p[i].away = t})]

\* any(cnt[t] < games_per_team for t in cnt)
NeedsExtension == \E t \in DOMAIN cnt : cnt[t] < gm_in.gamesPerTeam

\* random.Random(42).sample(pool, len(pool)) as positions of the pool, by len(pool)
SampleOrder ==
  << <<1>>,
     <<1, 2>>,
     <<3, 1, 2>>,
     <<1, 4, 2, 3>>,
     <<1, 5, 3, 2, 4>>,
     <<6, 1, 5, 3, 2, 4>>,
     <<6, 1, 7, 3, 5, 4, 2>>,
     <<2, 1, 6, 3, 8, 7, 5, 4>>,
     <<2, 1, 6, 3, 9, 5, 8, 7, 4>>,
     <<2, 1, 5, 10, 7, 6, 9, 3, 4, 8>>,
     <<11, 2, 1, 5, 10, 7, 6, 9, 3, 4, 8>>,
     <<11, 2, 1, 5, 4, 12, 7, 10, 9, 3, 6, 8>>,
     <<11, 2, 1, 5, 4, 9, 12, 6, 13, 10, 3, 7, 8>>,
     <<11, 2, 1, 5, 4, 10, 3, 6, 12, 14, 7, 8, 13, 9>>,
     <<11, 2, 1, 12, 5, 4, 10, 3, 6, 13, 15, 7, 8, 14, 9>>,
     <<4, 1, 12, 5, 16, 14, 3, 2, 9, 13, 11, 15, 7, 6, 10, 8>>,
     <<4, 1, 12, 5, 17, 13, 3, 2, 9, 10, 14, 15, 16, 7, 6, 11, 8>>,
     <<4, 1, 9, 18, 15, 3, 12, 2, 16, 11, 7, 17, 8, 6, 10, 5, 13, 14>>,
     <<4, 1, 9, 8, 19, 3, 12, 2, 11, 17, 13, 7, 18, 16, 6, 10, 5, 14, 15>>,
     <<4, 1, 9, 8, 17, 3, 12, 2, 11, 18, 13, 7, 19, 16, 14, 10, 5, 15, 6, 20>>,
     <<21, 4, 1, 9, 8, 17, 3, 12, 2, 11, 18, 13, 7, 19, 16, 14, 10, 5, 15, 6, 20>>,
     <<21, 4, 1, 9, 8, 18, 5, 12, 2, 11, 15, 19, 14, 7, 20, 17, 13, 10, 16, 3, 6, 22>>,
     <<21, 4, 1, 9, 8, 19, 5, 22, 11, 12, 20, 2, 10, 7, 23, 13, 18, 14, 6, 15, 3, 16, 17>>,
     <<21, 4, 1, 9, 8, 20, 5, 23, 3, 10, 7, 22, 13, 2, 17, 15, 12, 18, 11, 14, 24, 19, 6, 16>>,
     <<21, 4, 1, 9, 8, 25, 5, 24, 3, 14, 23, 15, 2, 18, 12, 22, 16, 11, 6, 7, 19, 20, 10, 13, 17>>,
     <<21, 4, 1, 9, 8, 22, 5, 25, 18, 3, 14, 24, 15, 2, 19, 12, 23, 16, 11, 6, 7, 20, 26, 10, 13, 17>>,
     <<21, 4, 1, 24, 9, 8, 22, 5, 26, 18, 3, 14, 25, 15, 2, 19, 12, 23, 16, 11, 6, 7, 20, 27, 10, 13, 17>>,
     <<21, 4, 1, 24, 9, 8, 23, 5, 27, 18, 3, 14, 2, 26, 16, 20, 13, 25, 10, 15, 12, 6, 7, 28, 22, 11, 17, 19>> >>

GmInit ==
  /\ gm_pc = "start"
  /\ gm_in \in GmInputs
  /\ pool = <<>>
  /\ cnt = <<>>
  /\ keep = <<>>
  /\ per = <<>>
  /\ gm_i = 0
  /\ gm_j = 0
  /\ SchedulerIdle
  /\ PipelineIdle
  /\ ExtIdle

\* generate_matchups up to the call of _fit_games_per_team, and the count
\* that opens _fit_games_per_team
BuildPool ==
  /\ gm_pc = "start"
  /\ pool' = Intra \o Cross
  /\ cnt' = CountOf(pool')
  /\ per' = [t \in GmTeams |-> 0]
  /\ gm_pc' = "fit"
  /\ UNCHANGED <<gm_in, keep, gm_i, gm_j>>
  /\ UNCHANGED <<schedulerVars, pipelineVars, extVars>>

\* one iteration of the while loop (170-175)
ExtendPool ==
  /\ gm_pc = "fit"
  /\ NeedsExtension
  /\ LET m == pool[(gm_i % Len(pool)) + 1]
         rev == Matchup(m.division, m.away, m.home, m.round_index)
     IN /\ pool' = Append(pool, rev)
        /\ cnt' = [cnt EXCEPT ![rev.home] = @ + 1, ![rev.away] = @ + 1]
  /\ gm_i' = gm_i + 1
  /\ UNCHANGED <<gm_pc, gm_in, keep, per, gm_j>>
  /\ UNCHANGED <<schedulerVars, pipelineVars, extVars>>

\* one iteration of the for loop over the sample (180-183)
PruneStep ==
  /\ gm_pc = "fit"
  /\ ~NeedsExtension
  /\ gm_j < Len(pool)
  /\ LET m == pool[SampleOrder[Len(pool)][gm_j + 1]]
     IN IF per[m.home] < gm_in.gamesPerTeam /\ per[m.away] < gm_in.gamesPerTeam
        THEN /\ keep' = Append(keep, m)
             /\ per' = [per EXCEPT ![m.home] = @ + 1, ![m.away] = @ + 1]
        ELSE UNCHANGED <<keep, per>>
  /\ gm_j' = gm_j + 1
  /\ UNCHANGED <<gm_pc, gm_in, pool, cnt, gm_i>>
  /\ UNCHANGED <<schedulerVars, pipelineVars, extVars>>

\* return keep (185, 161)
ReturnPool ==
  /\ gm_pc = "fit"
  /\ ~NeedsExtension
  /\ gm_j = Len(pool)
  /\ gm_pc' = "done"
  /\ UNCHANGED <<gm_in, pool, cnt, keep, per, gm_i, gm_j>>
  /\ UNCHANGED <<schedulerVars, pipelineVars, extVars>>

GmNext == BuildPool \/ ExtendPool \/ PruneStep \/ ReturnPool

MatchupSpec == GmInit /\ [][GmNext]_vars

KeptOf(t) ==
  Cardinality({i \in DOMAIN keep : keep[i].home = t})
    + Cardinality({i \in DOMAIN keep : keep[i].away = t})

\* C7: for one division of n >= 2 teams, without crossover, the returned pool
\* has ceil(n * K / 2) matchups, and when n * K is even every team is in
\* exactly K of them.
C7_PoolSizeAndExactK ==
  (/\ gm_pc = "done"
   /\ Len(gm_in.divSizes) = 1
   /\ gm_in.divSizes[1] >= 2
   /\ ~gm_in.subDivisionCrossover) =>
    LET n == gm_in.divSizes[1]
        K == gm_in.gamesPerTeam
    IN /\ Len(keep) = (n * K + 1) \div 2
       /\ (n * K) % 2 = 0 => \A t \in GmTeams : KeptOf(t) = K

(* ===================================================================== *)
(* engine/pipeline.py: run_pipeline, with engine/matchups.py,            *)
(* engine/assign.py, engine/costs.py and engine/utils.py                 *)
(* ===================================================================== *)
MaxPlTeams == 4
MaxPlSlots == 3

PlStartTimes ==
  {[day |-> 0, tod |-> 1200], [day |-> 0, tod |-> 1340],
   [day |-> 3, tod |-> 1380], [day |-> 15, tod |-> 1200]}

RECURSIVE SeqsUpTo(_, _)
SeqsUpTo(S, n) ==
  IF n = 0 THEN {<<>>}
  ELSE SeqsUpTo(S, n - 1) \cup {Append(q, x) : q \in {r \in SeqsUpTo(S, n - 1) : Len(r) = n - 1}, x \in S}

PlInputs ==
  {c \in [divSizes : GmDivSizeChoices, gamesPerTeam : 1..MaxK,
          subDivisionCrossover : BOOLEAN,
          slots_data : SeqsUpTo(PlStartTimes, MaxPlSlots)] :
     SumSeq(c.divSizes) <= MaxPlTeams}

\* defaults of params.get (costs.py 16-58)
IdealGapDays == 7
MaxGapDays == 12
weekdayBalance == FALSE
homeAwayBalance == FALSE
\* costs are counted in units of 1/CostScale; the weights below are the
\* defaults 1.0, 8.0, 5.0, 4.0, 0.5 and 0.5 in those units
CostScale == 2
gapBias == 2
idleUrgency == 16
emlBalance == 10
weekRotation == 8
weekdayWeight == 1
homeAway == 1

PlDivIdx == DOMAIN pl_in.divSizes
PlOffset(d) == SumSeq(SubSeq(pl_in.divSizes, 1, d - 1))
\* the team ids of division d, in input order and ascending
PlTeamsOf(d) == [k \in 1..pl_in.divSizes[d] |-> PlOffset(d) + k]
PlTeams == 1..SumSeq(pl_in.divSizes)

\* utils.py
days_between(dt1, dt2) == Abs(dt1.day - dt2.day)

classify_slot_time(dt) ==
  IF dt.tod <= EarlyEndDefault THEN "Early"
  ELSE IF dt.tod <= MidEndDefault THEN "Mid" ELSE "Late"

get_weekday(dt) == dt.day % 7

get_week_index(dt, season_start) ==
  (((StartOf(dt) - StartOf(season_start)) \div MinutesPerDay) \div 7) + 1

\* to_slots_df: parse in input order, the first slot being the season start,
\* then sort by start
to_slots_df(data) ==
  SortByStart([i \in DOMAIN data |->
    [id |-> i, day |-> data[i].day, tod |-> data[i].tod,
     weekday |-> get_weekday(data[i]),
     week_index |-> get_week_index(data[i], data[1]),
     eml_class |-> classify_slot_time(data[i]),
     assigned |-> FALSE]])

MatchupRec(home, away, div, seed) ==
  [home_team_id |-> home, away_team_id |-> away, division_id |-> div, is_seed |-> seed]

\* matchups.py generate_matchups: both legs of every pair of a division
DivisionLegs(d) ==
  LET T == PlTeamsOf(d)
      n == Len(T)
  IN IF n < 2 THEN <<>>
     ELSE Concat([i \in 1..n |-> Concat([k \in 1..(n - i) |->
            <<MatchupRec(T[i], T[i + k], d, FALSE), MatchupRec(T[i + k], T[i], d, FALSE)>>])])

CrossLegs(d1, d2) ==
  LET A == PlTeamsOf(d1)
      B == PlTeamsOf(d2)
  IN Concat([x \in 1..Len(A) |-> Concat([y \in 1..Len(B) |->
       <<MatchupRec(A[x], B[y], d1, FALSE), MatchupRec(B[y], A[x], d2, FALSE)>>])])

generate_matchups ==
  LET nd == Len(pl_in.divSizes)
      intra == Concat([d \in 1..nd |-> DivisionLegs(d)])
      cross == IF pl_in.subDivisionCrossover
               THEN Concat([i \in 1..nd |-> Concat([k \in 1..(nd - i) |-> CrossLegs(i, i + k)])])
               ELSE <<>>
  IN intra \o cross

\* matchups.py fit_games_per_team: keep a matchup while both teams are below
\* games_per_team
RECURSIVE FitFrom(_, _, _, _, _)
FitFrom(ms, i, filtered, temp_games_count, games_per_team_) ==
  IF i > Len(ms) THEN filtered
  ELSE LET m == ms[i]
       IN IF /\ temp_games_count[m.home_team_id] < games_per_team_
             /\ temp_games_count[m.away_team_id] < games_per_team_
          THEN FitFrom(ms, i + 1, Append(filtered, m),
                 [temp_games_count EXCEPT ![m.home_team_id] = @ + 1,
                                          ![m.away_team_id] = @ + 1],
                 games_per_team_)
          ELSE FitFrom(ms, i + 1, filtered, temp_games_count, games_per_team_)

fit_games_per_team(ms, games_per_team_) ==
  FitFrom(ms, 1, <<>>, [t \in PlTeams |-> 0], games_per_team_)

\* pipeline.py create_week1_seed_matchups: 1 v N, 2 v N-1, ...
SeedsOf(d) ==
  LET T == PlTeamsOf(d)
      n == Len(T)
  IN IF n < 2 THEN <<>>
     ELSE [i \in 1..(n \div 2) |-> MatchupRec(T[i], T[n + 1 - i], d, TRUE)]

create_week1_seed_matchups == Concat([d \in PlDivIdx |-> SeedsOf(d)])

\* run_pipeline 145-163: the seeds, then the regular matchups that repeat no
\* seed with the same home and away team
Combine(seed_matchups, ms) ==
  seed_matchups \o
    SelectSeq(ms, LAMBDA m :
      ~\E i \in DOMAIN seed_matchups :
          /\ seed_matchups[i].home_team_id = m.home_team_id
          /\ seed_matchups[i].away_team_id = m.away_team_id)

\* last_game_date of a team that has not played
NoDate == [day |-> None, tod |-> None]

TeamState ==
  [last_game_date |-> NoDate, games_played |-> 0, early_games |-> 0, mid_games |-> 0,
   late_games |-> 0, home_games |-> 0, away_games |-> 0,
   weekday_counts |-> [w \in 0..6 |-> 0]]

EmlGames(ts, eml) ==
  IF eml = "Early" THEN ts.early_games
  ELSE IF eml = "Mid" THEN ts.mid_games ELSE ts.late_games

\* costs.py calculate_slot_cost, times CostScale
TeamCost(slot, ts) ==
  LET gap == days_between(slot, ts.last_game_date)
  IN (IF ts.last_game_date # NoDate THEN Abs(gap - IdealGapDays) * gapBias ELSE 0)
     + (IF ts.last_game_date # NoDate /\ gap >= MaxGapDays
        THEN (gap - MaxGapDays + 1) * (gap - MaxGapDays + 1) * idleUrgency ELSE 0)
     + EmlGames(ts, slot.eml_class) * emlBalance
     + (IF weekdayBalance THEN ts.weekday_counts[slot.weekday] * weekdayWeight ELSE 0)
     + (IF homeAwayBalance THEN Abs(ts.home_games - ts.away_games) * homeAway ELSE 0)

calculate_slot_cost(slot, home_team_state, away_team_state) ==
  TeamCost(slot, home_team_state) + TeamCost(slot, away_team_state)
    + (IF slot.week_index <= 2 THEN weekRotation ELSE 0)

\* assign.py 43-78: the first unassigned slot of least cost, 0 when every slot
\* is assigned.  The rest-day and back-to-back tests (55-71) end in a continue
\* of their own inner loop over the two team states, so they only count log
\* reasons and reject no slot.
BestSlot(m) ==
  LET free == {i \in DOMAIN pl_slots : ~pl_slots[i].assigned}
      c(i) == calculate_slot_cost(pl_slots[i], team_states[m.home_team_id],
                                  team_states[m.away_team_id])
  IN IF free = {} THEN 0
     ELSE CHOOSE i \in free :
            \A j \in free : c(i) < c(j) \/ (c(i) = c(j) /\ i <= j)

Played(ts, slot, asHome) ==
  [ts EXCEPT !.last_game_date = [day |-> slot.day, tod |-> slot.tod],
             !.games_played = @ + 1,
             !.home_games = IF asHome THEN @ + 1 ELSE @,
             !.away_games = IF asHome THEN @ ELSE @ + 1,
             !.weekday_counts[slot.weekday] = @ + 1,
             !.early_games = IF slot.eml_class = "Early" THEN @ + 1 ELSE @,
             !.mid_games = IF slot.eml_class = "Mid" THEN @ + 1 ELSE @,
             !.late_games = IF slot.eml_class = "Late" THEN @ + 1 ELSE @]

\* strftime('%I:%M %p') compared as text: hour on the 12-hour clock, minute,
\* then AM before PM
StartText(tod) ==
  LET h == tod \div 60
      h12 == IF h % 12 = 0 THEN 12 ELSE h % 12
  IN <<h12, tod % 60, IF h >= 12 THEN 1 ELSE 0>>

RowBefore(r, q) ==
  LET a == StartText(r.Start)
      b == StartText(q.Start)
  IN \/ r.Date < q.Date
     \/ /\ r.Date = q.Date
        /\ \/ a[1] < b[1]
           \/ a[1] = b[1] /\ a[2] < b[2]
           \/ a[1] = b[1] /\ a[2] = b[2] /\ a[3] < b[3]

\* sort_values(['Date', 'Start']), rows of equal keys keeping their order
RECURSIVE InsertRow(_, _)
InsertRow(x, s) ==
  IF s = <<>> THEN <<x>>
  ELSE IF RowBefore(x, Head(s)) THEN <<x>> \o s
  ELSE <<Head(s)>> \o InsertRow(x, Tail(s))

RECURSIVE sort_values(_)
sort_values(s) ==
  IF s = <<>> THEN <<>>
  ELSE InsertRow(s[Len(s)], sort_values(SubSeq(s, 1, Len(s) - 1)))

SlotById(id) == pl_slots[CHOOSE i \in DOMAIN pl_slots : pl_slots[i].id = id]

ScheduleRow(game) ==
  LET slot == SlotById(game.slot)
  IN [Date |-> slot.day, Start |-> slot.tod, Division |-> game.division_id,
      Home |-> game.home_team, Away |-> game.away_team,
      EML |-> slot.eml_class, Weekday |-> slot.weekday, Week |-> slot.week_index]

PlInit ==
  /\ pl_pc = "start"
  /\ pl_in \in PlInputs
  /\ pl_slots = <<>>
  /\ matchups = <<>>
  /\ all_matchups = <<>>
  /\ team_states = <<>>
  /\ assigned_games = <<>>
  /\ pl_k = 0
  /\ schedule_df = <<>>
  /\ SchedulerIdle
  /\ MatchupsIdle
  /\ ExtIdle

\* run_pipeline 120-125
ParseSlots ==
  /\ pl_pc = "start"
  /\ pl_slots' = to_slots_df(pl_in.slots_data)
  /\ pl_pc' = IF pl_slots' = <<>> THEN "empty" ELSE "generate"
  /\ UNCHANGED <<pl_in, matchups, all_matchups, team_states, assigned_games, pl_k, schedule_df>>
  /\ UNCHANGED <<schedulerVars, matchupVars, extVars>>

\* run_pipeline 127-132
GenerateMatchups ==
  /\ pl_pc = "generate"
  /\ matchups' = generate_matchups
  /\ pl_pc' = IF matchups' = <<>> THEN "empty" ELSE "fit"
  /\ UNCHANGED <<pl_in, pl_slots, all_matchups, team_states, assigned_games, pl_k, schedule_df>>
  /\ UNCHANGED <<schedulerVars, matchupVars, extVars>>

\* run_pipeline 134-140
FitGames ==
  /\ pl_pc = "fit"
  /\ matchups' = fit_games_per_team(matchups, pl_in.gamesPerTeam)
  /\ pl_pc' = IF matchups' = <<>> THEN "empty" ELSE "combine"
  /\ UNCHANGED <<pl_in, pl_slots, all_matchups, team_states, assigned_games, pl_k, schedule_df>>
  /\ UNCHANGED <<schedulerVars, matchupVars, extVars>>

\* run_pipeline 142-165 and the set-up of assign_slots_to_matchups (17-30)
SeedAndCombine ==
  /\ pl_pc = "combine"
  /\ all_matchups' = Combine(create_week1_seed_matchups, matchups)
  /\ team_states' = [t \in PlTeams |-> TeamState]
  /\ pl_pc' = "assign"
  /\ UNCHANGED <<pl_in, pl_slots, matchups, assigned_games, pl_k, schedule_df>>
  /\ UNCHANGED <<schedulerVars, matchupVars, extVars>>

\* one iteration of the loop over the matchups (assign.py 32-125)
AssignMatchup ==
  /\ pl_pc = "assign"
  /\ pl_k < Len(all_matchups)
  /\ LET m == all_matchups[pl_k + 1]
         b == BestSlot(m)
     IN IF b = 0
        THEN UNCHANGED <<pl_slots, team_states, assigned_games>>
        ELSE /\ pl_slots' = [pl_slots EXCEPT ![b].assigned = TRUE]
             /\ team_states' =
                  [team_states EXCEPT
                     ![m.home_team_id] = Played(@, pl_slots[b], TRUE),
                     ![m.away_team_id] = Played(@, pl_slots[b], FALSE)]
             /\ assigned_games' = Append(assigned_games,
                  [home_team |-> m.home_team_id, away_team |-> m.away_team_id,
                   slot |-> pl_slots[b].id, division_id |-> m.division_id,
                   cost |-> calculate_slot_cost(pl_slots[b], team_states[m.home_team_id],
                                                team_states[m.away_team_id])])
  /\ pl_k' = pl_k + 1
  /\ UNCHANGED <<pl_pc, pl_in, matchups, all_matchups, schedule_df>>
  /\ UNCHANGED <<schedulerVars, matchupVars, extVars>>

\* run_pipeline 170-206
BuildFrame ==
  /\ pl_pc = "assign"
  /\ pl_k = Len(all_matchups)
  /\ IF assigned_games = <<>>
     THEN pl_pc' = "empty" /\ UNCHANGED schedule_df
     ELSE /\ schedule_df' = sort_values([i \in DOMAIN assigned_games |-> ScheduleRow(assigned_games[i])])
          /\ pl_pc' = "done"
  /\ UNCHANGED <<pl_in, pl_slots, matchups, all_matchups, team_states, assigned_games, pl_k>>
  /\ UNCHANGED <<schedulerVars, matchupVars, extVars>>

PlNext ==
  \/ ParseSlots \/ GenerateMatchups \/ FitGames \/ SeedAndCombine
  \/ AssignMatchup \/ BuildFrame

PipelineSpec == PlInit /\ [][PlNext]_vars

GamesOf(t) ==
  Cardinality({i \in DOMAIN schedule_df : schedule_df[i].Home = t \/ schedule_df[i].Away = t})

\* C10: in the schedule run_pipeline returns, every team is in at most
\* gamesPerTeam games.
C10_AtMostKGamesPerTeam ==
  pl_pc = "done" => \A t \in PlTeams : GamesOf(t) <= pl_in.gamesPerTeam


(* ======================================================================= *)
(* schedule_optimizer.py: optimize_from_dict and _place_teams_in_late_slots *)
(*                                                                         *)
(* A game is a record start/end/rink/home/away/div.  start is the pair     *)
(* (day, tod) that the ISO start string carries, a team is a positive      *)
(* number, and 0 stands for the empty string of an empty slot.  The set    *)
(* unplaced_teams is iterated by max() in an order that the string hashes  *)
(* of the process fix: the team that max() returns among equals is a       *)
(* nondeterministic choice.                                                *)
(* ======================================================================= *)
MaxOptTeams == 4

midStartDefault == 1351
neverPlayedPriority == 999
SlotScoreBase == 100
SlotScoreWeek == 7
SlotScoreDay == 10
SlotScoreIdle == 5
SlotScoreCrowd == 20
MinBlockSize == 4
MaxBlockSize == 20

_parse_start_to_date(start) == start.day
_parse_start_to_time(start) == start.tod

OptGame(day, late, rink, home, away) ==
  [start |-> [day |-> day, tod |-> IF late THEN 1380 ELSE 1200],
   end |-> [day |-> day, tod |-> IF late THEN 1439 ELSE 1260],
   rink |-> rink, home |-> home, away |-> away,
   div |-> IF home = 0 THEN 0 ELSE 1]

\* the elements of the set S, ascending by the key k[x] (keys are distinct)
RECURSIVE SortByKey(_, _)
SortByKey(S, k) ==
  IF S = {} THEN <<>>
  ELSE LET x == CHOOSE y \in S : \A z \in S : k[y] <= k[z]
       IN <<x>> \o SortByKey(S \ {x}, k)

\* team in (game.get('home', ''), game.get('away', ''))
PlaysIn(team, game) == team = game.home \/ team = game.away

IsLateStart(game) == _parse_start_to_time(game.start) >= midStartDefault

\* counts.get(team, 0) of _late_counts_from_completed
_late_counts_from_completed(completed, team) ==
  LET all == Concat(completed)
  IN Cardinality({i \in DOMAIN all : IsLateStart(all[i]) /\ team # 0
                                     /\ PlaysIn(team, all[i])})

_would_create_conflict(bucket, current_game_index, new_home, new_away, game_date, previous_bucket) ==
  \/ \E i \in DOMAIN bucket :
       /\ i # current_game_index
       /\ _parse_start_to_date(bucket[i].start) = game_date
       /\ (PlaysIn(new_home, bucket[i]) \/ PlaysIn(new_away, bucket[i]))
  \/ \E i \in DOMAIN previous_bucket :
       /\ previous_bucket[i].home # 0 /\ previous_bucket[i].away # 0
       /\ _parse_start_to_date(previous_bucket[i].start) = game_date
       /\ (PlaysIn(new_home, previous_bucket[i])
           \/ PlaysIn(new_away, previous_bucket[i]))

_can_place_matchup_in_slot(games, matchup, target_slot, previous_bucket) ==
  LET target_date == _parse_start_to_date(games[target_slot].start)
  IN /\ ~ \E i \in DOMAIN games :
            /\ i # target_slot
            /\ (games[i].home # 0 \/ games[i].away # 0)
            /\ _parse_start_to_date(games[i].start) = target_date
            /\ (PlaysIn(matchup.home, games[i]) \/ PlaysIn(matchup.away, games[i]))
     /\ ~ \E i \in DOMAIN previous_bucket :
            /\ previous_bucket[i].home # 0 /\ previous_bucket[i].away # 0
            /\ (PlaysIn(matchup.home, previous_bucket[i])
                \/ PlaysIn(matchup.away, previous_bucket[i]))
            /\ _parse_start_to_date(previous_bucket[i].start) = target_date

_calculate_days_since_last_played(team, completed, current_week_start_date) ==
  LET all == Concat(completed)
      dates == {_parse_start_to_date(all[i].start) :
                  i \in {j \in DOMAIN all : /\ all[j].home # 0 /\ all[j].away # 0
                                            /\ PlaysIn(team, all[j])}}
  IN IF dates = {} THEN neverPlayedPriority
     ELSE current_week_start_date - (CHOOSE d \in dates : \A e \in dates : e <= d)

_calculate_slot_score(games, slot_idx, matchup, completed, current_week_start_date) ==
  LET slot_date == _parse_start_to_date(games[slot_idx].start)
      days_from_start == slot_date - current_week_start_date
      home_days == _calculate_days_since_last_played(matchup.home, completed,
                                                     current_week_start_date)
      away_days == _calculate_days_since_last_played(matchup.away, completed,
                                                     current_week_start_date)
      same_day_games ==
        Cardinality({i \in DOMAIN games :
                       /\ i # slot_idx
                       /\ (games[i].home # 0 \/ games[i].away # 0)
                       /\ _parse_start_to_date(games[i].start) = slot_date})
  IN Max(0, SlotScoreBase
            + (IF days_from_start >= 0
               THEN (SlotScoreWeek - days_from_start) * SlotScoreDay ELSE 0)
            + Min(home_days, away_days) * SlotScoreIdle
            - same_day_games * SlotScoreCrowd)

\* cleared_games[slot] = {**cleared_games[slot], 'home': .., 'away': .., 'div': ..}
PutMatchup(games, slot, m) ==
  [games EXCEPT ![slot] = [@ EXCEPT !.home = m.home, !.away = m.away, !.div = m.div]]

MatchupKey(m) == <<m.home, m.away>>
AsMatchup(game) == [home |-> game.home, away |-> game.away, div |-> game.div]

\* Steps 1 and 3: the matchups of the filled slots, fewest late games first
\* (list.sort is stable: equal counts keep the slot order)
ExistingMatchups(bucket, completed) ==
  LET filled == {i \in DOMAIN bucket : bucket[i].home # 0 /\ bucket[i].away # 0}
      combined == [i \in filled |->
                     _late_counts_from_completed(completed, bucket[i].home)
                     + _late_counts_from_completed(completed, bucket[i].away)]
      order == SortByKey(filled, [i \in filled |-> combined[i] * (Len(bucket) + 1) + i])
  IN [n \in DOMAIN order |->
        [home |-> bucket[order[n]].home, away |-> bucket[order[n]].away,
         div |-> bucket[order[n]].div, original_slot |-> order[n],
         combined_late_count |-> combined[order[n]]]]

\* a step 2 that rebuilds the slots and loses their end times
ClearedGames_WithoutEnd(bucket) ==
  [i \in DOMAIN bucket |->
     [start |-> bucket[i].start, end |-> bucket[i].start, rink |-> bucket[i].rink,
      home |-> 0, away |-> 0, div |-> 0]]

\* Step 2: the slots without their teams
ClearedGames(bucket) ==
  [i \in DOMAIN bucket |->
     [start |-> bucket[i].start, end |-> bucket[i].end, rink |-> bucket[i].rink,
      home |-> 0, away |-> 0, div |-> 0]]

\* the late slots by (date, time), equal starts in slot order
LateSlots(games) ==
  LET late == {i \in DOMAIN games : IsLateStart(games[i])}
  IN SortByKey(late, [i \in late |->
       (_parse_start_to_date(games[i].start) * MinutesPerDay
        + _parse_start_to_time(games[i].start)) * (Len(games) + 1) + i])

PreviousBucket ==
  IF completed_buckets = <<>> THEN <<>>
  ELSE completed_buckets[Len(completed_buckets)]

\* Phase 1: the index of the first unplaced matchup, in priority order, that
\* the late slot can take; 0 when there is none
Phase1Pick(late_slot) ==
  LET slot_date == _parse_start_to_date(cleared_games[late_slot].start)
      ok == {n \in DOMAIN existing_matchups :
               /\ MatchupKey(existing_matchups[n]) \notin placed_matchups
               /\ ~ _would_create_conflict(cleared_games, late_slot,
                                           existing_matchups[n].home,
                                           existing_matchups[n].away,
                                           slot_date, PreviousBucket)
               /\ ~ \E i \in DOMAIN cleared_games :
                      /\ i # late_slot
                      /\ (cleared_games[i].home # 0 \/ cleared_games[i].away # 0)
                      /\ _parse_start_to_date(cleared_games[i].start) = slot_date
                      /\ (PlaysIn(existing_matchups[n].home, cleared_games[i])
                          \/ PlaysIn(existing_matchups[n].away, cleared_games[i]))}
  IN IF ok = {} THEN 0 ELSE CHOOSE n \in ok : \A m \in ok : n <= m

current_week_start_date == _parse_start_to_date(cleared_games[1].start)

DaysSince(team) ==
  _calculate_days_since_last_played(team, completed_buckets, current_week_start_date)

\* the teams max(unplaced_teams, key = days since) can return
Highest(unplaced) ==
  {t \in unplaced : \A u \in unplaced : DaysSince(u) <= DaysSince(t)}

\* the first unplaced matchup of the team, 0 when there is none
TeamMatchup(team, placed) ==
  LET own == {n \in DOMAIN existing_matchups :
                /\ PlaysIn(team, existing_matchups[n])
                /\ MatchupKey(existing_matchups[n]) \notin placed}
  IN IF own = {} THEN 0 ELSE CHOOSE n \in own : \A m \in own : n <= m

\* first pass of the loop body: the first available slot with the highest
\* score among those the matchup can take, 0 when there is none
BestAvailable(games, avail, matchup) ==
  LET ok == {k \in DOMAIN avail :
               _can_place_matchup_in_slot(games, matchup, avail[k], PreviousBucket)}
      score(k) == _calculate_slot_score(games, avail[k], matchup, completed_buckets,
                                        current_week_start_date)
      best == {k \in ok : \A j \in ok : score(j) <= score(k)}
  IN IF ok = {} THEN 0 ELSE avail[CHOOSE k \in best : \A j \in best : k <= j]

RemoveSlot(avail, slot) == SelectSeq(avail, LAMBDA x : x # slot)

\* the filled slots that start before the late threshold, in slot order
Switchable(games) ==
  LET sw == {i \in DOMAIN games : /\ games[i].home # 0 /\ games[i].away # 0
                                  /\ _parse_start_to_time(games[i].start) < midStartDefault}
  IN SortByKey(sw, [i \in sw |-> i])

Unresolved(games, avail) == [ok |-> FALSE, games |-> games, avail |-> avail]

_try_simple_swap_resolution(games, matchup, avail) ==
  LET sw == Switchable(games)
      cand == {c \in (DOMAIN sw) \X (DOMAIN avail) :
                 /\ _can_place_matchup_in_slot(games, matchup, sw[c[1]], PreviousBucket)
                 /\ _can_place_matchup_in_slot(games, AsMatchup(games[sw[c[1]]]),
                                               avail[c[2]], PreviousBucket)}
      first == CHOOSE c \in cand : \A d \in cand :
                 c[1] < d[1] \/ (c[1] = d[1] /\ c[2] <= d[2])
  IN IF cand = {} THEN Unresolved(games, avail)
     ELSE [ok |-> TRUE,
           games |-> PutMatchup(PutMatchup(games, avail[first[2]],
                                           AsMatchup(games[sw[first[1]]])),
                                sw[first[1]], matchup),
           avail |-> RemoveSlot(avail, avail[first[2]])]

_try_chain_swap_resolution(games, matchup, avail) ==
  LET sw == Switchable(games)
      cand == {c \in (DOMAIN sw) \X (DOMAIN sw) \X (DOMAIN avail) :
                 /\ c[1] # c[2]
                 /\ _can_place_matchup_in_slot(games, AsMatchup(games[sw[c[1]]]),
                                               sw[c[2]], PreviousBucket)
                 /\ _can_place_matchup_in_slot(games, AsMatchup(games[sw[c[2]]]),
                                               avail[c[3]], PreviousBucket)
                 /\ _can_place_matchup_in_slot(games, matchup, sw[c[1]], PreviousBucket)}
      first == CHOOSE c \in cand : \A d \in cand :
                 \/ c[1] < d[1]
                 \/ (c[1] = d[1] /\ c[2] < d[2])
                 \/ (c[1] = d[1] /\ c[2] = d[2] /\ c[3] <= d[3])
      game1 == AsMatchup(games[sw[first[1]]])
      game2 == AsMatchup(games[sw[first[2]]])
  IN IF Len(sw) < 2 \/ Len(avail) < 1 \/ cand = {} THEN Unresolved(games, avail)
     ELSE [ok |-> TRUE,
           games |-> PutMatchup(PutMatchup(PutMatchup(games, sw[first[2]], game1),
                                           avail[first[3]], game2),
                                sw[first[1]], matchup),
           avail |-> RemoveSlot(avail, avail[first[3]])]

_try_rotation_resolution(games, matchup, avail) ==
  LET sw == Switchable(games)
      game1 == AsMatchup(games[sw[1]])
      game2 == AsMatchup(games[sw[2]])
  IN IF Len(sw) < 3 \/ Len(avail) < 1 THEN Unresolved(games, avail)
     ELSE IF /\ _can_place_matchup_in_slot(games, game1, sw[2], PreviousBucket)
             /\ _can_place_matchup_in_slot(games, game2, sw[3], PreviousBucket)
             /\ _can_place_matchup_in_slot(games, matchup, sw[1], PreviousBucket)
          THEN [ok |-> TRUE,
                games |-> PutMatchup(PutMatchup(PutMatchup(games, sw[2], game1),
                                                sw[3], game2),
                                     sw[1], matchup),
                avail |-> avail]
          ELSE Unresolved(games, avail)

_try_resolve_conflict_by_switching(games, matchup, avail) ==
  LET simple == _try_simple_swap_resolution(games, matchup, avail)
      chain == _try_chain_swap_resolution(games, matchup, avail)
      rotation == _try_rotation_resolution(games, matchup, avail)
  IN IF Switchable(games) = <<>> THEN Unresolved(games, avail)
     ELSE IF simple.ok THEN simple
     ELSE IF chain.ok THEN chain
     ELSE rotation

\* one pass of the while loop of _optimize_days_since_last_played on the
\* state s, with team the one that max() returned
Phase2Iter(s, team) ==
  LET n == TeamMatchup(team, s.placed_matchups)
      m == existing_matchups[n]
      best_slot == BestAvailable(s.cleared_games, s.available_slots, m)
      r == _try_resolve_conflict_by_switching(s.cleared_games, m, s.available_slots)
  IN IF n = 0 THEN [s EXCEPT !.unplaced_teams = @ \ {team}]
     ELSE IF best_slot # 0
     THEN [cleared_games |-> PutMatchup(s.cleared_games, best_slot, m),
           placed_matchups |-> s.placed_matchups \cup {MatchupKey(m)},
           unplaced_teams |-> s.unplaced_teams \ {m.home, m.away},
           available_slots |-> RemoveSlot(s.available_slots, best_slot)]
     ELSE IF r.ok
     THEN [cleared_games |-> r.games,
           placed_matchups |-> s.placed_matchups \cup {MatchupKey(m)},
           unplaced_teams |-> s.unplaced_teams \ {m.home, m.away},
           available_slots |-> r.avail]
     ELSE [s EXCEPT !.unplaced_teams = @ \ {team}]

Phase2State ==
  [cleared_games |-> cleared_games, placed_matchups |-> placed_matchups,
   unplaced_teams |-> unplaced_teams, available_slots |-> available_slots]

Phase2Running(s) == s.unplaced_teams # {} /\ s.available_slots # <<>>

(* ------------------------------ inputs ------------------------------ *)
\* a matchup of two of the teams 1..MaxOptTeams, or the empty slot
OptPairs == {<<0, 0>>} \cup {p \in (1..MaxOptTeams) \X (1..MaxOptTeams) : p[1] < p[2]}

\* two weeks of two slots: at most one game in week 1 (teams 1 and 2, which
\* stands for any pair up to the names), every filling of week 2
SmallSchedules ==
  {<<OptGame(0, FALSE, 1, 0, 0), OptGame(1, l1, 2, p1[1], p1[2]),
     OptGame(d2, l2, 1, p2[1], p2[2]), OptGame(d3, l3, 2, p3[1], p3[2])>> :
     l1 \in BOOLEAN, p1 \in {<<0, 0>>, <<1, 2>>},
     d2 \in {1, 2}, l2 \in BOOLEAN, p2 \in OptPairs,
     d3 \in {1, 2}, l3 \in BOOLEAN, p3 \in OptPairs}

SmallInputs ==
  [schedule : SmallSchedules, blockSize : {2}, target_week : 0..3,
   optimize_days_since : BOOLEAN]

Perms(n) == {f \in [1..n -> 1..n] : \A i, j \in 1..n : i # j => f[i] # f[j]}

\* one week whose slots and matchups are given; the matchups are dealt to
\* the slots in every order
Dealt(slots, pairs) ==
  {[i \in DOMAIN slots |->
      OptGame(slots[i][1], slots[i][2], slots[i][3], pairs[f[i]][1], pairs[f[i]][2])] :
     f \in Perms(Len(slots))}

\* six games of six teams on three days, one late slot, slots not in
\* chronological order
SixSlots == <<<<4, FALSE, 1>>, <<5, FALSE, 1>>, <<3, TRUE, 1>>,
              <<4, FALSE, 2>>, <<3, FALSE, 1>>, <<3, FALSE, 2>>>>
SixPairs == <<<<2, 3>>, <<1, 4>>, <<1, 2>>, <<4, 5>>, <<3, 5>>, <<4, 6>>>>

\* scenario S6: teams 1 and 2 last played 10 days before week 2, teams 3
\* and 4 three days before; week 2 has five slots, three of them late
S6Histories ==
  {<<OptGame(0, TRUE, 1, x[1], x[2]), OptGame(0, TRUE, 2, y[1], y[2]),
     OptGame(3, l1, 1, 1, 2), OptGame(10, l2, 1, 3, 4),
     OptGame(10, FALSE, 2, 0, 0)>> :
     x \in {<<0, 0>>, <<1, 3>>}, y \in {<<0, 0>>, <<2, 4>>},
     l1 \in BOOLEAN, l2 \in BOOLEAN}
S6Slots == <<<<13, FALSE, 1>>, <<13, TRUE, 1>>, <<14, FALSE, 1>>,
             <<14, TRUE, 1>>, <<15, TRUE, 1>>>>
S6Pairs == <<<<1, 2>>, <<3, 4>>, <<0, 0>>, <<0, 0>>, <<0, 0>>>>

ScenarioInputs ==
  {[schedule |-> w, blockSize |-> 6, target_week |-> 1, optimize_days_since |-> TRUE] :
     w \in Dealt(SixSlots, SixPairs)}
  \cup
  {[schedule |-> h \o w, blockSize |-> 5, target_week |-> 2,
    optimize_days_since |-> o] :
     h \in S6Histories, w \in Dealt(S6Slots, S6Pairs), o \in BOOLEAN}

IsS6(in) == in.blockSize = 5

\* two weeks of two slots, week 1 the target: week 1 has two games, one
\* of them late on day 1, and week 2 has a game on day 1 too
FollowingInputs ==
  {[schedule |-> <<OptGame(0, FALSE, 1, p1[1], p1[2]), OptGame(1, TRUE, 2, p2[1], p2[2]),
                   OptGame(1, l, 1, p3[1], p3[2]), OptGame(2, FALSE, 2, 0, 0)>>,
    blockSize |-> 2, target_week |-> 1, optimize_days_since |-> o] :
     p1 \in {<<1, 2>>}, p2 \in {<<3, 4>>, <<1, 3>>},
     p3 \in {<<1, 2>>, <<2, 4>>, <<3, 4>>}, l \in BOOLEAN, o \in BOOLEAN}

(* -------------------------- optimize_from_dict ----------------------- *)
OptTeamCount(schedule) ==
  Cardinality(UNION {{schedule[i].home, schedule[i].away} : i \in DOMAIN schedule} \ {0})

\* params.get('blockSize'), 0 standing for None
OptBlockSize(in) ==
  IF in.blockSize = 0
  THEN Max(MinBlockSize, Min(MaxBlockSize, OptTeamCount(in.schedule) \div 2))
  ELSE in.blockSize

\* buckets: schedule[i:i + block_size] for i in range(0, len(schedule), block_size)
BucketsOf(schedule, size) ==
  [k \in 1..((Len(schedule) + size - 1) \div size) |->
     SubSeq(schedule, (k - 1) * size + 1, Min(k * size, Len(schedule)))]

\* a week selection that ignores target_week
Optimizes_IgnoringTarget(i) ==
  /\ i > 1
  /\ \E g \in Range(op_buckets[i]) : IsLateStart(g)

\* the week is handed to _place_teams_in_late_slots
Optimizes(i) ==
  /\ IF op_in.target_week # 0 THEN i = op_in.target_week ELSE i > 1
  /\ \E g \in Range(op_buckets[i]) : IsLateStart(g)

OptInit ==
  /\ op_pc = "start"
  /\ op_in \in SmallInputs \cup ScenarioInputs \cup FollowingInputs
  /\ op_buckets = <<>>
  /\ op_week = 0
  /\ optimized_schedule = <<>>
  /\ completed_buckets = <<>>
  /\ cleared_games = <<>>
  /\ existing_matchups = <<>>
  /\ placed_matchups = {}
  /\ late_slots = <<>>
  /\ unplaced_teams = {}
  /\ available_slots = <<>>
  /\ SchedulerIdle
  /\ MatchupsIdle
  /\ PipelineIdle
  /\ PassesIdle
  /\ CallsIdle

optimizerLocals == <<cleared_games, existing_matchups, placed_matchups, late_slots,
                     unplaced_teams, available_slots>>
optimizerRest == <<schedulerVars, matchupVars, pipelineVars, passVars, callVars>>

\* lines 703-738: the buckets, and the check of target_week
MakeBuckets ==
  /\ op_pc = "start"
  /\ op_buckets' = BucketsOf(op_in.schedule, OptBlockSize(op_in))
  /\ op_pc' = IF op_in.target_week > Len(op_buckets') THEN "error" ELSE "week"
  /\ op_week' = 1
  /\ UNCHANGED <<op_in, optimized_schedule, completed_buckets, optimizerLocals,
                 optimizerRest>>

\* a week before the target, week 1 of the automatic mode, or a week without
\* a late slot: added to the result and to completed_buckets as it is
RecordWeek ==
  /\ op_pc = "week"
  /\ op_week <= Len(op_buckets)
  /\ ~ Optimizes(op_week)
  /\ op_in.target_week = 0 \/ op_week <= op_in.target_week
  /\ optimized_schedule' = optimized_schedule \o op_buckets[op_week]
  /\ completed_buckets' = Append(completed_buckets, op_buckets[op_week])
  /\ op_week' = op_week + 1
  /\ UNCHANGED <<op_pc, op_in, op_buckets, optimizerLocals, optimizerRest>>

\* a week after the target: added to the result only
KeepWeek ==
  /\ op_pc = "week"
  /\ op_week <= Len(op_buckets)
  /\ op_in.target_week # 0 /\ op_week > op_in.target_week
  /\ optimized_schedule' = optimized_schedule \o op_buckets[op_week]
  /\ op_week' = op_week + 1
  /\ UNCHANGED <<op_pc, op_in, op_buckets, completed_buckets, optimizerLocals,
                 optimizerRest>>

\* _place_teams_in_late_slots, steps 1 to 3 and the order of the late slots
ClearWeek ==
  /\ op_pc = "week"
  /\ op_week <= Len(op_buckets)
  /\ Optimizes(op_week)
  /\ existing_matchups' = ExistingMatchups(op_buckets[op_week], completed_buckets)
  /\ cleared_games' = ClearedGames(op_buckets[op_week])
  /\ placed_matchups' = {}
  /\ late_slots' = LateSlots(cleared_games')
  /\ unplaced_teams' = {}
  /\ available_slots' = <<>>
  /\ op_pc' = "phase1"
  /\ UNCHANGED <<op_in, op_buckets, op_week, optimized_schedule, completed_buckets,
                 optimizerRest>>

\* Phase 1, one late slot
Phase1Slot ==
  /\ op_pc = "phase1"
  /\ late_slots # <<>>
  /\ LET late_slot == Head(late_slots)
         n == Phase1Pick(late_slot)
     IN IF n = 0
        THEN UNCHANGED <<cleared_games, placed_matchups>>
        ELSE /\ cleared_games' = PutMatchup(cleared_games, late_slot, existing_matchups[n])
             /\ placed_matchups' = placed_matchups \cup {MatchupKey(existing_matchups[n])}
  /\ late_slots' = Tail(late_slots)
  /\ UNCHANGED <<op_pc, op_in, op_buckets, op_week, optimized_schedule,
                 completed_buckets, existing_matchups, unplaced_teams,
                 available_slots, optimizerRest>>

\* lines 320-338 and 1617-1646: Phase 2 runs when Phase 1 placed a game and
\* optimize_days_since is set
StartPhase2 ==
  /\ op_pc = "phase1"
  /\ late_slots = <<>>
  /\ IF placed_matchups # {} /\ op_in.optimize_days_since
     THEN /\ unplaced_teams' =
               UNION {{existing_matchups[n].home, existing_matchups[n].away} :
                        n \in {k \in DOMAIN existing_matchups :
                                 MatchupKey(existing_matchups[k]) \notin placed_matchups}}
          /\ available_slots' =
               SortByKey({i \in DOMAIN cleared_games :
                            cleared_games[i].home = 0 /\ cleared_games[i].away = 0},
                         [i \in DOMAIN cleared_games |-> i])
     ELSE UNCHANGED <<unplaced_teams, available_slots>>
  /\ op_pc' = "phase2"
  /\ UNCHANGED <<op_in, op_buckets, op_week, optimized_schedule, completed_buckets,
                 cleared_games, existing_matchups, placed_matchups, late_slots,
                 optimizerRest>>

\* one pass of the while loop of _optimize_days_since_last_played
Phase2Step ==
  /\ op_pc = "phase2"
  /\ Phase2Running(Phase2State)
  /\ \E team \in Highest(unplaced_teams) :
       LET s == Phase2Iter(Phase2State, team)
       IN /\ cleared_games' = s.cleared_games
          /\ placed_matchups' = s.placed_matchups
          /\ unplaced_teams' = s.unplaced_teams
          /\ available_slots' = s.available_slots
  /\ UNCHANGED <<op_pc, op_in, op_buckets, op_week, optimized_schedule,
                 completed_buckets, existing_matchups, late_slots, optimizerRest>>

\* lines 427-441 and 789-792: the rebuilt week is returned and recorded
FinishWeek ==
  /\ op_pc = "phase2"
  /\ ~ Phase2Running(Phase2State)
  /\ optimized_schedule' = optimized_schedule \o cleared_games
  /\ completed_buckets' = Append(completed_buckets, cleared_games)
  /\ op_week' = op_week + 1
  /\ op_pc' = "week"
  /\ UNCHANGED <<op_in, op_buckets, optimizerLocals, optimizerRest>>

OptReturn ==
  /\ op_pc = "week"
  /\ op_week > Len(op_buckets)
  /\ op_pc' = "done"
  /\ UNCHANGED <<op_in, op_buckets, op_week, optimized_schedule, completed_buckets,
                 optimizerLocals, optimizerRest>>

OptNext ==
  \/ MakeBuckets \/ RecordWeek \/ KeepWeek \/ ClearWeek \/ Phase1Slot
  \/ StartPhase2 \/ Phase2Step \/ FinishWeek \/ OptReturn

OptSpec == OptInit /\ [][OptNext]_vars

(* ===================================================================== *)
(* src/scheduler/passes: cap_fix, smooth_gaps, balance_weekdays and       *)
(* balance_home_away on a Schedule (src/scheduler/models.py)              *)
(*                                                                       *)
(* A datetime is a number of minutes; a game is a ScheduledGame with its  *)
(* matchup's teams, its slot and its scheduled_date; a team is a Team     *)
(* with the fields the passes read (eml_counts is left out).  Team names  *)
(* are 1..MaxPassTeams in the order of the schedule.teams dict.           *)
(* ===================================================================== *)
MaxPassTeams == 4
MaxPassGames == 3

\* Team.get_rest_days of a team that never played
NeverPlayedRest == 999
\* max_iterations of smooth_gaps, and of the weekday and home/away passes
SmoothMaxIterations == 10
BalanceMaxIterations == 5
\* the penalties per day over max_gap_days in cap_fix and smooth_gaps
CapFixPenalty == 10
SmoothPenalty == 5

DateOf(datetime) == datetime \div MinutesPerDay
TimeOf(datetime) == datetime % MinutesPerDay

PassTeams == 1..MaxPassTeams

\* Matchup.teams
TeamsOf(game) == {game.home, game.away}

\* sorted(games, key = scheduled_date), a stable sort
SortedByDate(gs) ==
  LET order == SortByKey(DOMAIN gs,
                 [i \in DOMAIN gs |-> gs[i].scheduled_date * (Len(gs) + 1) + i])
  IN [n \in DOMAIN gs |-> gs[order[n]]]

GameById(gs, id) == CHOOSE g \in Range(gs) : g.game_id = id

\* Schedule.get_team_schedule
get_team_schedule(gs, team_name) ==
  LET Mine(g) == team_name \in TeamsOf(g)
  IN SelectSeq(gs, Mine)

\* Team.get_rest_days
get_rest_days(team, current_date) ==
  IF team.last_played = None
  THEN NeverPlayedRest
  ELSE DateOf(current_date) - DateOf(team.last_played)

\* Team.get_home_away_balance
get_home_away_balance(team) == team.home_count - team.away_count

\* Team(name, division, sub_division) as the dataclass makes it
FreshTeam == [last_played |-> None, home_count |-> 0, away_count |-> 0, games_played |-> 0]

\* _update_team_states_after_swap: every team reset, then update_after_game
\* for the games in chronological order
_update_team_states_after_swap(gs) ==
  [t \in PassTeams |->
     LET mine == SortedByDate(get_team_schedule(gs, t))
         IsHome(g) == g.home = t
         IsAway(g) == g.away = t
     IN IF mine = <<>> THEN FreshTeam
        ELSE [last_played |-> mine[Len(mine)].scheduled_date,
              home_count |-> Len(SelectSeq(mine, IsHome)),
              away_count |-> Len(SelectSeq(mine, IsAway)),
              games_played |-> Len(mine)]]

\* _get_team_gaps (cap_fix.py and smooth_gap.py)
_get_team_gaps(gs, team) ==
  LET mine == SortedByDate(get_team_schedule(gs, team))
  IN [i \in 1..(Len(mine) - 1) |->
        DateOf(mine[i + 1].scheduled_date) - DateOf(mine[i].scheduled_date)]

\* _simulate_swap: a copy of the games, the scheduled dates of the two
\* games exchanged
_simulate_swap(gs, game1, game2) ==
  [i \in DOMAIN gs |->
     IF gs[i].game_id = game1.game_id
     THEN [gs[i] EXCEPT !.scheduled_date = game2.scheduled_date]
     ELSE IF gs[i].game_id = game2.game_id
     THEN [gs[i] EXCEPT !.scheduled_date = game1.scheduled_date]
     ELSE gs[i]]

\* _is_swap_valid (cap_fix.py); _is_valid_swap_candidate of smooth_gap.py
\* and the rest checks of the two balance passes have the same body
_is_swap_valid(teams, game1, game2, config) ==
  \A team \in TeamsOf(game1) \cup TeamsOf(game2) :
    /\ get_rest_days(teams[team], game1.scheduled_date) >= config.rest_min_days
    /\ get_rest_days(teams[team], game2.scheduled_date) >= config.rest_min_days

\* _execute_swap of cap_fix.py and smooth_gap.py, _execute_weekday_swap and
\* _execute_home_away_swap: the two scheduled dates are exchanged in place
\* and the team states rebuilt
_execute_swap(gs, game1, game2) ==
  LET swapped == _simulate_swap(gs, game1, game2)
  IN [games |-> swapped, teams |-> _update_team_states_after_swap(swapped)]

\* the sum of f over a sequence of numbers
SumOver(s, f(_)) == SumSeq([i \in DOMAIN s |-> f(s[i])])

(* ------------------------------ cap_fix ------------------------------ *)
\* _find_gap_violations: per team in dict order, the first pair of
\* consecutive games more than max_gap_days apart
_find_gap_violations(gs, config) ==
  LET FirstOver(team) ==
        LET mine == SortedByDate(get_team_schedule(gs, team))
            over == {i \in 1..(Len(mine) - 1) :
                       DateOf(mine[i + 1].scheduled_date) - DateOf(mine[i].scheduled_date)
                         > config.max_gap_days}
        IN IF over = {} THEN <<>>
           ELSE LET i == CHOOSE j \in over : \A k \in over : j <= k
                IN <<[team |-> team, game1 |-> mine[i].game_id,
                      game2 |-> mine[i + 1].game_id]>>
  IN Concat([t \in PassTeams |-> FirstOver(t)])

\* _calculate_swap_improvement
_calculate_swap_improvement(gs, teams, game1, game2, target_team, config) ==
  IF ~ _is_swap_valid(teams, game1, game2, config)
  THEN -1
  ELSE LET current_gaps == _get_team_gaps(gs, target_team)
           new_gaps == _get_team_gaps(_simulate_swap(gs, game1, game2), target_team)
           Penalty(gap) == IF gap > config.max_gap_days
                           THEN (gap - config.max_gap_days) * CapFixPenalty ELSE 0
           Bonus(i) == IF new_gaps[i] < current_gaps[i]
                          /\ current_gaps[i] > config.target_gap_days
                       THEN current_gaps[i] - new_gaps[i] ELSE 0
       IN SumSeq([i \in DOMAIN new_gaps |-> Bonus(i)]) - SumOver(new_gaps, Penalty)

\* _find_potential_swaps, on schedule.games already sorted in place
_find_potential_swaps(sorted, teams, team, game1, game2, config) ==
  LET game1_idx == CHOOSE i \in DOMAIN sorted : sorted[i].game_id = game1.game_id
      game2_idx == CHOOSE i \in DOMAIN sorted : sorted[i].game_id = game2.game_id
      Proposals(i) ==
        LET candidate_game == sorted[i]
            swap1 == _calculate_swap_improvement(sorted, teams, game1, candidate_game,
                                                 team, config)
            swap2 == _calculate_swap_improvement(sorted, teams, game2, candidate_game,
                                                 team, config)
        IN IF team \in TeamsOf(candidate_game) THEN <<>>
           ELSE (IF swap1 > 0
                 THEN <<[game1 |-> game1.game_id, game2 |-> candidate_game.game_id,
                         improvement |-> swap1]>> ELSE <<>>)
                \o
                (IF swap2 > 0
                 THEN <<[game1 |-> game2.game_id, game2 |-> candidate_game.game_id,
                         improvement |-> swap2]>> ELSE <<>>)
  IN Concat([k \in 1..(game2_idx - game1_idx - 1) |-> Proposals(game1_idx + k)])

\* min(potential_swaps, key = improvement): the first proposal with the
\* least improvement
BestSwap(potential_swaps) ==
  CHOOSE i \in DOMAIN potential_swaps :
    \A j \in DOMAIN potential_swaps :
      \/ potential_swaps[i].improvement < potential_swaps[j].improvement
      \/ (potential_swaps[i].improvement = potential_swaps[j].improvement /\ i <= j)

\* _fix_team_gap_violation; games is schedule.games as the call leaves it
_fix_team_gap_violation(gs, teams, violation_info, config) ==
  LET sorted == SortedByDate(gs)
      game1 == GameById(sorted, violation_info.game1)
      game2 == GameById(sorted, violation_info.game2)
      Outcome(potential_swaps) ==
        LET best == IF potential_swaps = <<>> THEN 0 ELSE BestSwap(potential_swaps)
            commits == IF best = 0 THEN FALSE ELSE potential_swaps[best].improvement > 0
        IN IF commits
           THEN LET done == _execute_swap(sorted,
                                          GameById(sorted, potential_swaps[best].game1),
                                          GameById(sorted, potential_swaps[best].game2))
                IN [fixed |-> TRUE, games |-> done.games, teams |-> done.teams,
                    potential_swaps |-> potential_swaps, best |-> best]
           ELSE [fixed |-> FALSE, games |-> sorted, teams |-> teams,
                 potential_swaps |-> potential_swaps, best |-> 0]
  IN CHOOSE r \in {Outcome(found) :
                     found \in {_find_potential_swaps(sorted, teams, violation_info.team,
                                                      game1, game2, config)}} : TRUE

(* ----------------------------- smooth_gaps --------------------------- *)
\* _find_teams_with_poor_gaps: the average distance of the gaps from
\* target_gap_days is above 2.0
_find_teams_with_poor_gaps(gs, config) ==
  LET Poor(team) ==
        LET gaps == _get_team_gaps(gs, team)
            Deviation(gap) == Abs(gap - config.target_gap_days)
        IN gaps # <<>> /\ SumOver(gaps, Deviation) > 2 * Len(gaps)
  IN SortByKey({t \in PassTeams : Poor(t)}, [t \in PassTeams |-> t])

\* _find_swap_candidates
_find_swap_candidates(gs, teams, team_name, game1, game2, config) ==
  LET Candidates(i) ==
        IF team_name \in TeamsOf(gs[i]) \/ gs[i].game_id \in {game1.game_id, game2.game_id}
        THEN <<>>
        ELSE (IF _is_swap_valid(teams, game1, gs[i], config)
              THEN <<[game |-> game1.game_id, target_game |-> gs[i].game_id]>> ELSE <<>>)
             \o
             (IF _is_swap_valid(teams, game2, gs[i], config)
              THEN <<[game |-> game2.game_id, target_game |-> gs[i].game_id]>> ELSE <<>>)
  IN Concat([i \in DOMAIN gs |-> Candidates(i)])

\* _calculate_gap_improvement
_calculate_gap_improvement(gs, team_name, candidate, config) ==
  LET current_gaps == _get_team_gaps(gs, team_name)
      new_gaps == _get_team_gaps(_simulate_swap(gs, GameById(gs, candidate.game),
                                                GameById(gs, candidate.target_game)),
                                 team_name)
      Penalty(gap) == IF gap > config.max_gap_days
                      THEN (gap - config.max_gap_days) * SmoothPenalty ELSE 0
      Bonus(i) ==
        LET old_deviation == Abs(current_gaps[i] - config.target_gap_days)
            new_deviation == Abs(new_gaps[i] - config.target_gap_days)
        IN IF new_deviation < old_deviation THEN old_deviation - new_deviation ELSE 0
  IN SumSeq([i \in DOMAIN new_gaps |-> Bonus(i)]) - SumOver(new_gaps, Penalty)

\* _improve_team_gaps and _try_improve_gap_with_swap: the worst gap of the
\* team, and the first candidate with the greatest improvement above 0
_improve_team_gaps(gs, teams, team_name, config) ==
  LET team_games == SortedByDate(get_team_schedule(gs, team_name))
      Deviation(i) ==
        Abs(DateOf(team_games[i + 1].scheduled_date) - DateOf(team_games[i].scheduled_date)
            - config.target_gap_days)
      gapIdx == 1..(Len(team_games) - 1)
      worst == {i \in gapIdx : Deviation(i) > 0 /\ \A j \in gapIdx : Deviation(j) <= Deviation(i)}
      worst_gap_idx == CHOOSE i \in worst : \A j \in worst : i <= j
      game1 == team_games[worst_gap_idx]
      game2 == team_games[worst_gap_idx + 1]
      candidates == _find_swap_candidates(gs, teams, team_name, game1, game2, config)
      Improvement(k) == _calculate_gap_improvement(gs, team_name, candidates[k], config)
      best == {k \in DOMAIN candidates :
                 Improvement(k) > 0 /\ \A j \in DOMAIN candidates : Improvement(j) <= Improvement(k)}
      best_candidate == candidates[CHOOSE k \in best : \A j \in best : k <= j]
      done == _execute_swap(gs, GameById(gs, best_candidate.game),
                            GameById(gs, best_candidate.target_game))
  IN IF Len(team_games) < 2 \/ worst = {} \/ best = {}
     THEN [ok |-> FALSE, games |-> gs, teams |-> teams]
     ELSE [ok |-> TRUE, games |-> done.games, teams |-> done.teams]

(* ------------------- the swap check of the balance passes ------------- *)
\* _would_create_conflict (weekday_balance.py and home_away.py): after the
\* exchange of the two dates some team plays twice on a date
_would_create_swap_conflict(gs, game1, game2) ==
  LET after == _simulate_swap(gs, game1, game2)
  IN \E i, j \in DOMAIN after :
       /\ i # j
       /\ DateOf(after[i].scheduled_date) = DateOf(after[j].scheduled_date)
       /\ TeamsOf(after[i]) \cap TeamsOf(after[j]) # {}

(* --------------------------- balance_weekdays ------------------------ *)
\* Slot.weekday, 0 to 6
SlotWeekday(slots, game) == DateOf(slots[game.slot]) % 7

\* the weekdays of a team's games that count as heavy and as light
HeavyWeekdays(slots, team_games, config) ==
  LET Count(day) == Cardinality({i \in DOMAIN team_games : SlotWeekday(slots, team_games[i]) = day})
  IN {day \in {SlotWeekday(slots, team_games[i]) : i \in DOMAIN team_games} :
        Count(day) >= config.weekday_heavy_threshold}
LightWeekdays(slots, team_games, config) ==
  LET Count(day) == Cardinality({i \in DOMAIN team_games : SlotWeekday(slots, team_games[i]) = day})
  IN {day \in {SlotWeekday(slots, team_games[i]) : i \in DOMAIN team_games} :
        Count(day) <= config.weekday_light_threshold}

\* _find_teams_with_poor_weekdays
_find_teams_with_poor_weekdays(slots, gs, config) ==
  LET Poor(team) ==
        LET team_games == get_team_schedule(gs, team)
        IN /\ HeavyWeekdays(slots, team_games, config) # {}
           /\ LightWeekdays(slots, team_games, config) # {}
  IN SortByKey({t \in PassTeams : Poor(t)}, [t \in PassTeams |-> t])

\* _can_swap_weekday_games: same time slot (every slot lasts as long), rest
\* days, no conflict
_can_swap_weekday_games(slots, gs, teams, game1, game2, config) ==
  /\ TimeOf(slots[game1.slot]) = TimeOf(slots[game2.slot])
  /\ _is_swap_valid(teams, game1, game2, config)
  /\ ~ _would_create_swap_conflict(gs, game1, game2)

\* _improve_team_weekdays and _try_swap_weekday_games: the first pair of a
\* heavy-day game and a light-day game that can be swapped
_improve_team_weekdays(slots, gs, teams, team_name, config) ==
  LET team_games == get_team_schedule(gs, team_name)
      heavy == HeavyWeekdays(slots, team_games, config)
      light == LightWeekdays(slots, team_games, config)
      n == Len(team_games)
      pairs == {p \in (1..n) \X (1..n) :
                  /\ SlotWeekday(slots, team_games[p[1]]) \in heavy
                  /\ SlotWeekday(slots, team_games[p[2]]) \in light
                  /\ _can_swap_weekday_games(slots, gs, teams, team_games[p[1]],
                                             team_games[p[2]], config)}
      first == CHOOSE p \in pairs :
                 \A q \in pairs : p[1] < q[1] \/ (p[1] = q[1] /\ p[2] <= q[2])
      done == _execute_swap(gs, team_games[first[1]], team_games[first[2]])
  IN IF n < 2 \/ heavy = {} \/ light = {} \/ pairs = {}
     THEN [ok |-> FALSE, games |-> gs, teams |-> teams]
     ELSE [ok |-> TRUE, games |-> done.games, teams |-> done.teams]

(* -------------------------- balance_home_away ------------------------ *)
\* _find_teams_with_poor_balance
_find_teams_with_poor_balance(teams, config) ==
  SortByKey({t \in PassTeams : Abs(get_home_away_balance(teams[t])) > config.home_away_band},
            [t \in PassTeams |-> t])

\* _can_swap_home_away
_can_swap_home_away(gs, teams, game1, game2, config) ==
  /\ _is_swap_valid(teams, game1, game2, config)
  /\ ~ _would_create_swap_conflict(gs, game1, game2)

\* _improve_team_balance with _try_swap_to_home and _try_swap_to_away: the
\* first of the team's away (home) games and the first game of other teams
\* it can be swapped with
_improve_team_balance(gs, teams, team_name, config) ==
  LET balance == get_home_away_balance(teams[team_name])
      needs_home == balance < 0
      Own(i) == IF needs_home THEN gs[i].away = team_name ELSE gs[i].home = team_name
      Compatible(i, j) ==
        /\ gs[j].game_id # gs[i].game_id
        /\ IF needs_home THEN gs[j].away # gs[i].away ELSE gs[j].home # gs[i].home
        /\ TeamsOf(gs[i]) \cap TeamsOf(gs[j]) = {}
      pairs == {p \in (DOMAIN gs) \X (DOMAIN gs) :
                  /\ Own(p[1])
                  /\ Compatible(p[1], p[2])
                  /\ _can_swap_home_away(gs, teams, gs[p[1]], gs[p[2]], config)}
      first == CHOOSE p \in pairs :
                 \A q \in pairs : p[1] < q[1] \/ (p[1] = q[1] /\ p[2] <= q[2])
      done == _execute_swap(gs, gs[first[1]], gs[first[2]])
  IN IF Abs(balance) <= config.home_away_band \/ pairs = {}
     THEN [ok |-> FALSE, games |-> gs, teams |-> teams]
     ELSE [ok |-> TRUE, games |-> done.games, teams |-> done.teams]

\* what balance_home_away records about the teams it leaves outside the
\* band: the function has no warning list and returns the schedule only
HomeAwayWarnings == {}

(* ------------------------------ inputs ------------------------------- *)
\* the start times of the slots: days 0, 7, 9 and 20, the third one an
\* hour later in the evening than the others
PassSlots == <<0 * MinutesPerDay + 1200, 7 * MinutesPerDay + 1200,
               9 * MinutesPerDay + 1260, 20 * MinutesPerDay + 1200>>

PassConfig ==
  [rest_min_days |-> 3, max_gap_days |-> 12, target_gap_days |-> 7,
   home_away_band |-> 1, weekday_heavy_threshold |-> 2, weekday_light_threshold |-> 1]

PassPairs == {p \in PassTeams \X PassTeams : p[1] # p[2]}

\* schedules of MaxPassGames games, each in a slot of its own and listed in
\* the order of the slots, scheduled_date being the start of the slot
PassSchedules ==
  {[i \in 1..MaxPassGames |->
      [game_id |-> i, home |-> ps[i][1], away |-> ps[i][2], slot |-> f[i],
       scheduled_date |-> PassSlots[f[i]]]] :
     ps \in [1..MaxPassGames -> PassPairs],
     f \in {g \in [1..MaxPassGames -> DOMAIN PassSlots] :
              \A i, j \in 1..MaxPassGames : i < j => g[i] < g[j]}}

\* SchedulingEngine._is_slot_eligible keeps rest_min_days between the games
\* of a team
EngineMade(gs) ==
  \A t \in PassTeams :
    \A i \in DOMAIN _get_team_gaps(gs, t) :
      _get_team_gaps(gs, t)[i] >= PassConfig.rest_min_days

\* the argument of a pass: a schedule whose teams are either as the engine
\* left them or new Team objects
PassInputs ==
  {[pass |-> p, games |-> gs, fresh |-> fr, config |-> PassConfig] :
     p \in {"cap_fix", "smooth_gaps", "balance_weekdays", "balance_home_away"},
     gs \in PassSchedules, fr \in BOOLEAN}

PassInit ==
  /\ SchedulerIdle /\ MatchupsIdle /\ PipelineIdle /\ OptimizerIdle /\ CallsIdle
  /\ rp_pc = "start"
  /\ rp_in \in {i \in PassInputs : i.fresh \/ EngineMade(i.games)}
  /\ rp_games = rp_in.games
  /\ rp_teams = IF rp_in.fresh THEN [t \in PassTeams |-> FreshTeam]
                ELSE _update_team_states_after_swap(rp_in.games)
  /\ violations = <<>>
  /\ teams_to_improve = <<>>
  /\ improve_queue = <<>>
  /\ iteration = 0
  /\ iteration_improvements = 0
  /\ last_fix = [potential_swaps |-> <<>>, best |-> 0]
  /\ swaps_made = <<>>

passRest == <<schedulerVars, matchupVars, pipelineVars, optimizerVars, callVars>>

\* the swap a step committed, if any, added to the record of swaps
Swapped(before, after) ==
  LET moved == {i \in DOMAIN before :
                  GameById(after, before[i].game_id).scheduled_date # before[i].scheduled_date}
  IN IF moved = {} THEN <<>> ELSE <<{before[i].game_id : i \in moved}>>

\* cap_fix, lines 22-31
CapFix ==
  /\ rp_pc = "start"
  /\ rp_in.pass = "cap_fix"
  /\ violations' = _find_gap_violations(rp_games, rp_in.config)
  /\ rp_pc' = IF violations' = <<>> THEN "done" ELSE "cap_fix"
  /\ UNCHANGED <<rp_in, rp_games, rp_teams, teams_to_improve, improve_queue, iteration,
                 iteration_improvements, last_fix, swaps_made, passRest>>

\* cap_fix, lines 35-41: one team of the violations, and the return after
\* the last one
FixTeamGapViolation ==
  /\ rp_pc = "cap_fix"
  /\ \E r \in {_fix_team_gap_violation(rp_games, rp_teams, Head(violations), rp_in.config)} :
        /\ rp_games' = r.games
        /\ rp_teams' = r.teams
        /\ last_fix' = [potential_swaps |-> r.potential_swaps, best |-> r.best]
        /\ swaps_made' = swaps_made \o Swapped(rp_games, r.games)
  /\ violations' = Tail(violations)
  /\ rp_pc' = IF violations' = <<>> THEN "done" ELSE "cap_fix"
  /\ UNCHANGED <<rp_in, teams_to_improve, improve_queue, iteration,
                 iteration_improvements, passRest>>

\* the entry of the three passes that loop over teams_to_improve: nothing
\* to do, or the first iteration
EnterLoop(name, poor) ==
  /\ teams_to_improve' = poor
  /\ improve_queue' = poor
  /\ iteration' = IF poor = <<>> THEN 0 ELSE 1
  /\ rp_pc' = IF poor = <<>> THEN "done" ELSE name
  /\ UNCHANGED <<rp_in, rp_games, rp_teams, violations, iteration_improvements,
                 last_fix, swaps_made, passRest>>

\* one team of an iteration has been handled with outcome r; after the last
\* team the loop ends when the iteration improved nothing or was the last
LoopStep(r, max_iterations) ==
  /\ rp_games' = r.games
  /\ rp_teams' = r.teams
  /\ swaps_made' = swaps_made \o Swapped(rp_games, r.games)
  /\ LET improved == iteration_improvements + (IF r.ok THEN 1 ELSE 0)
     IN IF Tail(improve_queue) # <<>>
        THEN /\ improve_queue' = Tail(improve_queue)
             /\ iteration_improvements' = improved
             /\ UNCHANGED <<rp_pc, iteration>>
        ELSE IF improved = 0 \/ iteration = max_iterations
        THEN /\ rp_pc' = "done"
             /\ improve_queue' = <<>>
             /\ iteration_improvements' = improved
             /\ UNCHANGED iteration
        ELSE /\ iteration' = iteration + 1
             /\ improve_queue' = teams_to_improve
             /\ iteration_improvements' = 0
             /\ UNCHANGED rp_pc
  /\ UNCHANGED <<rp_in, violations, teams_to_improve, last_fix, passRest>>

\* smooth_gaps, lines 22-35
SmoothGaps ==
  /\ rp_pc = "start"
  /\ rp_in.pass = "smooth_gaps"
  /\ EnterLoop("smooth_gaps", _find_teams_with_poor_gaps(rp_games, rp_in.config))

\* smooth_gaps, lines 41-56
ImproveTeamGaps ==
  /\ rp_pc = "smooth_gaps"
  /\ \E r \in {_improve_team_gaps(rp_games, rp_teams, Head(improve_queue), rp_in.config)} :
        LoopStep(r, SmoothMaxIterations)

\* balance_weekdays, lines 22-35
BalanceWeekdays ==
  /\ rp_pc = "start"
  /\ rp_in.pass = "balance_weekdays"
  /\ EnterLoop("balance_weekdays",
               _find_teams_with_poor_weekdays(PassSlots, rp_games, rp_in.config))

\* balance_weekdays, lines 41-56
ImproveTeamWeekdays ==
  /\ rp_pc = "balance_weekdays"
  /\ \E r \in {_improve_team_weekdays(PassSlots, rp_games, rp_teams, Head(improve_queue),
                                       rp_in.config)} :
        LoopStep(r, BalanceMaxIterations)

\* balance_home_away, lines 22-39 (home_away_band is not 0 in PassConfig)
BalanceHomeAway ==
  /\ rp_pc = "start"
  /\ rp_in.pass = "balance_home_away"
  /\ EnterLoop("balance_home_away", _find_teams_with_poor_balance(rp_teams, rp_in.config))

\* balance_home_away, lines 45-60
ImproveTeamBalance ==
  /\ rp_pc = "balance_home_away"
  /\ \E r \in {_improve_team_balance(rp_games, rp_teams, Head(improve_queue), rp_in.config)} :
        LoopStep(r, BalanceMaxIterations)

PassNext ==
  \/ CapFix \/ FixTeamGapViolation
  \/ SmoothGaps \/ ImproveTeamGaps
  \/ BalanceWeekdays \/ ImproveTeamWeekdays
  \/ BalanceHomeAway \/ ImproveTeamBalance

PassSpec == PassInit /\ [][PassNext]_vars

(* ===================================================================== *)
(* Properties of optimize_from_dict (specification OptSpec)              *)
(* ===================================================================== *)
\* week i went through _place_teams_in_late_slots and has been returned
Rebuilt(i) == i \in DOMAIN completed_buckets /\ Optimizes(i)

MatchupsIn(bucket) ==
  {<<bucket[k].home, bucket[k].away, bucket[k].div>> :
     k \in {j \in DOMAIN bucket : bucket[j].home # 0 /\ bucket[j].away # 0}}
TimesIn(bucket, m) ==
  Cardinality({k \in DOMAIN bucket : <<bucket[k].home, bucket[k].away, bucket[k].div>> = m})

\* C11: every bucket returned by _place_teams_in_late_slots holds the same
\* multiset of (home, away, div) matchups as the input bucket.
C11_MatchupsPreserved ==
  \A i \in DOMAIN completed_buckets :
    Rebuilt(i) =>
      \A m \in MatchupsIn(op_buckets[i]) \cup MatchupsIn(completed_buckets[i]) :
        TimesIn(op_buckets[i], m) = TimesIn(completed_buckets[i], m)


\* the teams of the filled games of a bucket that start on a date
TeamsOn(bucket, date) ==
  UNION {{bucket[k].home, bucket[k].away} :
           k \in {j \in DOMAIN bucket : _parse_start_to_date(bucket[j].start) = date}} \ {0}

\* same-day conflict: two games sharing a date share a team, within the
\* bucket or between the bucket and the previous one
NoSameDayConflict(bucket, previous_bucket) ==
  /\ \A j, k \in DOMAIN bucket :
        (j # k /\ _parse_start_to_date(bucket[j].start) = _parse_start_to_date(bucket[k].start))
          => ({bucket[j].home, bucket[j].away} \cap {bucket[k].home, bucket[k].away}) \ {0} = {}
  /\ \A k \in DOMAIN bucket :
        ({bucket[k].home, bucket[k].away} \ {0})
          \cap TeamsOn(previous_bucket, _parse_start_to_date(bucket[k].start)) = {}

\* the bucket before week i in the returned schedule
ReturnedBefore(i) == IF i > 1 THEN completed_buckets[i - 1] ELSE <<>>

\* C12: a bucket rebuilt by _place_teams_in_late_slots from an input without
\* same-day conflict has no team twice on a date, and no team that also
\* plays on that date in the bucket before it.
C12_NoSameDayConflictAfterRebuild ==
  \A i \in DOMAIN completed_buckets :
    (Rebuilt(i) /\ NoSameDayConflict(op_buckets[i], ReturnedBefore(i)))
      => NoSameDayConflict(completed_buckets[i], ReturnedBefore(i))


\* C13: the i-th slot of a bucket returned by _place_teams_in_late_slots has
\* the start, end and rink of the i-th slot of the input bucket.
C13_SlotTimesKept ==
  \A i \in DOMAIN completed_buckets :
    Rebuilt(i) =>
      /\ Len(completed_buckets[i]) = Len(op_buckets[i])
      /\ \A k \in DOMAIN op_buckets[i] :
            /\ completed_buckets[i][k].start = op_buckets[i][k].start
            /\ completed_buckets[i][k].end = op_buckets[i][k].end
            /\ completed_buckets[i][k].rink = op_buckets[i][k].rink

\* a returned bucket in which a matchup has moved to another slot
C13_Witness ==
  \E i \in DOMAIN completed_buckets :
    /\ Rebuilt(i)
    /\ \E j, k \in DOMAIN op_buckets[i] :
          /\ j # k
          /\ op_buckets[i][j].home # 0
          /\ op_buckets[i][j].start # op_buckets[i][k].start
          /\ AsMatchup(completed_buckets[i][k]) = AsMatchup(op_buckets[i][j])
          /\ AsMatchup(completed_buckets[i][j]) # AsMatchup(op_buckets[i][j])

\* the week a position of the schedule belongs to
WeekOf(p) == (p - 1) \div OptBlockSize(op_in) + 1

\* C14: with a target_week, every game of the returned schedule outside the
\* target bucket is the input game at the same position.
C14_OtherWeeksUntouched ==
  (op_pc = "done" /\ op_in.target_week # 0) =>
    /\ Len(optimized_schedule) = Len(op_in.schedule)
    /\ \A p \in DOMAIN op_in.schedule :
          WeekOf(p) # op_in.target_week => optimized_schedule[p] = op_in.schedule[p]

\* a run that changed the target week, with a played week before it
C14_Witness ==
  /\ op_pc = "done"
  /\ op_in.target_week = 2
  /\ optimized_schedule # op_in.schedule
  /\ \E p \in DOMAIN op_in.schedule : WeekOf(p) = 1 /\ op_in.schedule[p].home # 0


\* the loop of _optimize_days_since_last_played run to its end from s, the
\* lowest-numbered of the tied teams taken at every iteration
RECURSIVE Phase2Canon(_)
Phase2Canon(s) ==
  IF ~ Phase2Running(s)
  THEN s
  ELSE LET tied == Highest(s.unplaced_teams)
           team == CHOOSE t \in tied : \A u \in tied : t <= u
       IN Phase2Canon(Phase2Iter(s, team))

\* C15: optimize_from_dict returns the same schedule on every execution with
\* the same input: the rebuilt bucket does not depend on which of the teams
\* tied for the most days since last played the set iteration yields first.
C15_ResultIndependentOfSetOrder ==
  (op_pc = "phase2" /\ Phase2Running(Phase2State)) =>
    \A team \in Highest(unplaced_teams) :
      Phase2Canon(Phase2Iter(Phase2State, team)).cleared_games
        = Phase2Canon(Phase2State).cleared_games


\* scenario S6 after the rebuild of week 2: the slot a matchup ended in
S6Done == op_pc = "done" /\ IsS6(op_in)
S6Week == completed_buckets[2]
S6SlotsOf(home, away) ==
  {k \in DOMAIN S6Week : S6Week[k].home = home /\ S6Week[k].away = away}

\* C16: in scenario S6 the matchup of teams 1 and 2 (A vs B, 10 days since
\* they last played) ends in a slot that is not late and the matchup of teams
\* 3 and 4 (C vs D, 3 days) ends in a late slot, for every late-game history.
C16_ScenarioS6 ==
  S6Done =>
    /\ \E k \in S6SlotsOf(1, 2) : ~ IsLateStart(S6Week[k])
    /\ \E k \in S6SlotsOf(3, 4) : IsLateStart(S6Week[k])


(* ===================================================================== *)
(* Properties of the repair passes (specification PassSpec)              *)
(* ===================================================================== *)
\* C17: when balance_home_away has returned, every team is within
\* home_away_band of an even home/away split or has a warning recorded.
C17_WithinBandOrWarned ==
  (rp_pc = "done" /\ rp_in.pass = "balance_home_away") =>
    \A t \in PassTeams :
      \/ Abs(get_home_away_balance(rp_teams[t])) <= rp_in.config.home_away_band
      \/ t \in HomeAwayWarnings

\* C18: _fix_team_gap_violation commits the proposal with the greatest
\* improvement among those above 0, and nothing when there is none.
C18_CommitsGreatestImprovement ==
  LET proposals == last_fix.potential_swaps
      positive == {k \in DOMAIN proposals : proposals[k].improvement > 0}
  IN /\ positive = {} => last_fix.best = 0
     /\ positive # {} =>
           /\ last_fix.best \in positive
           /\ \A k \in positive :
                 proposals[k].improvement <= proposals[last_fix.best].improvement

\* C19: in every schedule a repair pass leaves, each game's scheduled_date is
\* the start of its slot, no two games have the same slot, and every game
\* has the home and away teams it came with.
C19_SwapKeepsGamesInTheirSlots ==
  /\ \A i \in DOMAIN rp_games : rp_games[i].scheduled_date = PassSlots[rp_games[i].slot]
  /\ \A i, j \in DOMAIN rp_games : i # j => rp_games[i].slot # rp_games[j].slot
  /\ \A i \in DOMAIN rp_games :
        LET was == GameById(rp_in.games, rp_games[i].game_id)
        IN rp_games[i].home = was.home /\ rp_games[i].away = was.away


(* ------- Properties of the strict filler (specification Spec) -------- *)
\* the abort conditions of a block: a team of a recipe division would pass
\* games_per_team, or a recipe division has no round-robin, too few pairs in
\* its next round, or too few slots of its own in the block
TooFewPairs(d) ==
  /\ d \in DOMAIN div_rounds
  /\ Len(div_rounds[d][(div_round_idx[d] % Len(div_rounds[d])) + 1]) < block_recipe[d]

TooFewSlots(d, seg) ==
  LET slots == SlotsOfSeg(seg)
  IN Cardinality({i \in DOMAIN slots : /\ slots[i].AssignedDivision = d
                                       /\ slots[i].SlotID \notin used_slot_ids})
       < block_recipe[d]

AbortCondition(seg) ==
  \/ BlockWouldExceed(team_game_count)
  \/ \E d \in DOMAIN block_recipe :
       \/ d \notin DOMAIN div_rounds
       \/ TooFewPairs(d)
       \/ TooFewSlots(d, seg)

\* the filler is at a full block that matches the recipe
AtFullBlock ==
  /\ pc = "strict"
  /\ cursor <= MaxSeg
  /\ ~(\A t \in TeamNames : team_game_count[t] >= games_per_team)
  /\ BlockMatches(cursor)

\* C20: when a full block meets an abort condition, the strict filler commits
\* no game in that block, raises no exception and leaves every slot of the
\* block unused for the greedy assigner
C20_AbortLeavesBlockToGreedy ==
  [][(AtFullBlock /\ AbortCondition(cursor)) =>
       /\ games_assigned' = games_assigned
       /\ used_slot_ids' = used_slot_ids
       /\ pc' # "raised"]_vars

(* ----- Properties of the slot assignment (specification PipelineSpec) ----- *)
\* params.get('minRestDays', 3) of assign_slots_to_matchups
minRestDaysDefault == 3

\* the step assigns a slot to the matchup at hand
Assigns == pl_pc = "assign" /\ Len(assigned_games') = Len(assigned_games) + 1

\* C21: a matchup is assigned to a slot only if each of its two teams that
\* has already been given a game has at least minRestDays days between that
\* last game and the start of the slot
C21_AssignedSlotKeepsMinRest ==
  [][Assigns =>
       LET game == assigned_games'[Len(assigned_games')]
           slot == SlotById(game.slot)
       IN \A t \in {game.home_team, game.away_team} :
            team_states[t].last_game_date # NoDate =>
              days_between(slot, team_states[t].last_game_date) >= minRestDaysDefault]_vars

(* ------ The round-robin generators (specification RoundRobinSpec) ------ *)
MaxRRTeams == 5

\* a division of n teams, and the order random.shuffle leaves the teams
\* after the anchor in (round_robin_pairs shuffles only lists longer than 2)
RRInputs ==
  UNION {{[teams |-> [i \in 1..n |-> i], perm |-> perm] :
            perm \in Permutations(1..(n + (n % 2) - 1))} : n \in 2..MaxRRTeams}

RRInit ==
  /\ SchedulerIdle /\ MatchupsIdle /\ PipelineIdle /\ OptimizerIdle /\ PassesIdle
  /\ fn_pc = "start"
  /\ fn_in \in {i \in RRInputs : Len(i.teams) <= 2 => \A k \in DOMAIN i.perm : i.perm[k] = k}
  /\ fn_out = <<>>

callRest == <<schedulerVars, matchupVars, pipelineVars, optimizerVars, passVars>>

\* EnhancedScheduler.round_robin_pairs(teams, seed)
CallRoundRobinPairs ==
  /\ fn_pc = "start"
  /\ fn_out' = [fn |-> "round_robin_pairs",
                rounds |-> round_robin_pairs(fn_in.teams, fn_in.perm)]
  /\ fn_pc' = "done"
  /\ UNCHANGED <<fn_in, callRest>>

\* engine/scheduler.py _round_robin(teams)
CallRoundRobin ==
  /\ fn_pc = "start"
  /\ fn_out' = [fn |-> "_round_robin", rounds |-> _round_robin(fn_in.teams)]
  /\ fn_pc' = "done"
  /\ UNCHANGED <<fn_in, callRest>>

RRNext == CallRoundRobinPairs \/ CallRoundRobin

RoundRobinSpec == RRInit /\ [][RRNext]_vars

\* the places (round, index) where teams a and b meet
Meetings(rounds, a, b) ==
  {rj \in {<<r, j>> : r \in DOMAIN rounds, j \in 1..MaxRRTeams} :
     /\ rj[2] \in DOMAIN rounds[rj[1]]
     /\ {rounds[rj[1]][rj[2]][1], rounds[rj[1]][rj[2]][2]} = {a, b}}

\* the teams of a round, as a bag would count them: team -> appearances
AppearancesIn(round, t) ==
  Cardinality({j \in DOMAIN round : round[j][1] = t \/ round[j][2] = t})

\* C22: for a division of n >= 2 teams the rounds of both generators hold
\* every unordered pair of teams exactly once, no team twice in a round, and
\* for odd n every round leaves exactly one team idle and has no BYE pair
C22_CircleMethodRounds ==
  fn_pc = "done" =>
    LET rounds == fn_out.rounds
        teams == Range(fn_in.teams)
    IN /\ \A a, b \in teams : a # b => Cardinality(Meetings(rounds, a, b)) = 1
       /\ \A r \in DOMAIN rounds : \A t \in teams : AppearancesIn(rounds[r], t) <= 1
       /\ \A r \in DOMAIN rounds : \A j \in DOMAIN rounds[r] :
            rounds[r][j][1] # BYE /\ rounds[r][j][2] # BYE
       /\ Len(fn_in.teams) % 2 = 1 =>
            \A r \in DOMAIN rounds :
              Cardinality({t \in teams : AppearancesIn(rounds[r], t) = 0}) = 1

\* an odd division of five teams has gone through a generator
C22_Witness ==
  /\ fn_pc = "done"
  /\ Len(fn_in.teams) = 5
  /\ Len(fn_out.rounds) = 5
  /\ \A r \in DOMAIN fn_out.rounds : Len(fn_out.rounds[r]) = 2

(* --------- validate_schedule (specification ValidateSpec) ------------- *)
\* lines 247-263: per game, the home team and then the away team
RestErrors(gs, teams, config) ==
  LET Of(game, team, role) ==
        LET rest == get_rest_days(teams[team], game.scheduled_date)
        IN IF rest < config.rest_min_days
           THEN <<[kind |-> "rest", role |-> role, team |-> team, rest |-> rest]>>
           ELSE <<>>
  IN Concat([i \in DOMAIN gs |-> Of(gs[i], gs[i].home, "Home") \o
                                 Of(gs[i], gs[i].away, "Away")])

\* lines 265-281: per date in the order the dates come up, per game of the
\* date, a team that an earlier game of the date already has
ConflictErrors(gs) ==
  LET FirstOn(i) == CHOOSE j \in DOMAIN gs :
                      /\ DateOf(gs[j].scheduled_date) = DateOf(gs[i].scheduled_date)
                      /\ \A k \in 1..(j - 1) :
                           DateOf(gs[k].scheduled_date) # DateOf(gs[i].scheduled_date)
      order == SortByKey(DOMAIN gs, [i \in DOMAIN gs |-> FirstOn(i) * (Len(gs) + 1) + i])
      Seen(i, team) == \E j \in 1..(i - 1) :
                          /\ DateOf(gs[j].scheduled_date) = DateOf(gs[i].scheduled_date)
                          /\ team \in TeamsOf(gs[j])
      Of(i, team) == IF Seen(i, team)
                     THEN <<[kind |-> "conflict", team |-> team,
                             date |-> DateOf(gs[i].scheduled_date)]>>
                     ELSE <<>>
  IN Concat([n \in DOMAIN order |-> Of(order[n], gs[order[n]].home) \o
                                    Of(order[n], gs[order[n]].away)])

\* validate_schedule of a schedule that has games and all its matchups
validate_schedule(gs, teams, config) ==
  [errors |-> RestErrors(gs, teams, config) \o ConflictErrors(gs), warnings |-> <<>>]

\* the schedule to validate: the teams are new Team objects, or the schedule
\* keeps the engine's rest and the teams are as the engine left them
ValidateInputs ==
  {[games |-> gs, fresh |-> fr, config |-> PassConfig] :
     gs \in PassSchedules, fr \in BOOLEAN}

ValidateInit ==
  /\ SchedulerIdle /\ MatchupsIdle /\ PipelineIdle /\ OptimizerIdle /\ PassesIdle
  /\ fn_pc = "start"
  /\ fn_in \in {i \in ValidateInputs : i.fresh \/ EngineMade(i.games)}
  /\ fn_out = <<>>

CallValidateSchedule ==
  /\ fn_pc = "start"
  /\ fn_out' = validate_schedule(fn_in.games,
                                 IF fn_in.fresh THEN [t \in PassTeams |-> FreshTeam]
                                 ELSE _update_team_states_after_swap(fn_in.games),
                                 fn_in.config)
  /\ fn_pc' = "done"
  /\ UNCHANGED <<fn_in, callRest>>

ValidateNext == CallValidateSchedule

ValidateSpec == ValidateInit /\ [][ValidateNext]_vars

\* C23: validate_schedule reports an insufficient-rest error for a team
\* exactly when two consecutive games of the team are fewer than
\* rest_min_days days apart
C23_RestErrorIffShortGap ==
  fn_pc = "done" =>
    \A t \in PassTeams :
      (\E e \in Range(fn_out.errors) : e.kind = "rest" /\ e.team = t)
        <=> (\E g \in Range(_get_team_gaps(fn_in.games, t)) : g < fn_in.config.rest_min_days)

(* ------------- The E/M/L classifiers (specification EmlSpec) ---------- *)
MaxEmlOffset == 2

\* scheduler/eml.py eml_category(dt, early_end, mid_end), on time objects
eml_category(dt, early_end, mid_end) ==
  IF dt <= early_end THEN "E"
  ELSE IF dt <= mid_end THEN "M" ELSE "L"

\* strftime("%H:%M"): two digits each, so that strings compare as the pairs
hhmm(tod) == <<tod \div 60, tod % 60>>

StrLess(a, b) == a[1] < b[1] \/ (a[1] = b[1] /\ a[2] < b[2])

\* engine/scheduler.py _classify_eml(end_local_hhmm, early_end, mid_end)
_classify_eml(end_local_hhmm, early_end, mid_end) ==
  IF StrLess(end_local_hhmm, early_end) THEN "E"
  ELSE IF StrLess(end_local_hhmm, mid_end) THEN "M" ELSE "L"

\* minutes of the day around the two thresholds
EmlTimes ==
  {t + d : t \in {EarlyEndDefault, MidEndDefault}, d \in (0 - MaxEmlOffset)..MaxEmlOffset}

\* a slot of one evening, and the thresholds of the configuration
EmlInputs ==
  {[start |-> s, end |-> e, early_end |-> EarlyEndDefault, mid_end |-> MidEndDefault] :
     s \in EmlTimes \cup {t - 80 : t \in EmlTimes}, e \in EmlTimes}

EmlInit ==
  /\ SchedulerIdle /\ MatchupsIdle /\ PipelineIdle /\ OptimizerIdle /\ PassesIdle
  /\ fn_pc = "start"
  /\ fn_in \in {i \in EmlInputs : i.start < i.end}
  /\ fn_out = <<>>

\* ingest.py line 66: the class of the end time, from classify_slot_times
CallEmlCategory ==
  /\ fn_pc = "start"
  /\ fn_out' = [fn |-> "eml_category",
                class |-> eml_category(fn_in.end, fn_in.early_end, fn_in.mid_end)]
  /\ fn_pc' = "done"
  /\ UNCHANGED <<fn_in, callRest>>

\* engine/pipeline.py line 39: classify_slot_time(event_start, params)
CallClassifySlotTime ==
  /\ fn_pc = "start"
  /\ fn_out' = [fn |-> "classify_slot_time",
                class |-> classify_slot_time([day |-> 0, tod |-> fn_in.start])]
  /\ fn_pc' = "done"
  /\ UNCHANGED <<fn_in, callRest>>

\* engine/scheduler.py line 79: _classify_eml(end_hhmm, early, mid)
CallClassifyEml ==
  /\ fn_pc = "start"
  /\ fn_out' = [fn |-> "_classify_eml",
                class |-> _classify_eml(hhmm(fn_in.end), hhmm(fn_in.early_end),
                                        hhmm(fn_in.mid_end))]
  /\ fn_pc' = "done"
  /\ UNCHANGED <<fn_in, callRest>>

\* enhanced_scheduler.py line 306: self.classify_bucket(start_dt)
CallClassifyBucket ==
  /\ fn_pc = "start"
  /\ fn_out' = [fn |-> "classify_bucket", class |-> classify_bucket(fn_in.start)]
  /\ fn_pc' = "done"
  /\ UNCHANGED <<fn_in, callRest>>

EmlNext ==
  \/ CallEmlCategory
  \/ CallClassifySlotTime
  \/ CallClassifyEml
  \/ CallClassifyBucket

EmlSpec == EmlInit /\ [][EmlNext]_vars

\* the class a name of any of the classifiers stands for
EmlLetter(class) ==
  IF class \in {"E", "Early"} THEN "E"
  ELSE IF class \in {"M", "Mid"} THEN "M" ELSE "L"

\* C24: every classifier classifies a slot from its end time t with
\* exclusive upper bounds: Early exactly when t < early_end, Mid exactly when
\* early_end <= t < mid_end, Late otherwise
C24_ClassFromEndTimeExclusive ==
  fn_pc = "done" =>
    EmlLetter(fn_out.class) =
      (IF fn_in.end < fn_in.early_end THEN "E"
       ELSE IF fn_in.end < fn_in.mid_end THEN "M" ELSE "L")

(* --------- Odd n * K (specification MatchupSpec) ---------------------- *)
\* C25: when a division of n teams and K games per team has n * K odd,
\* matchup generation fails instead of returning a matchup pool
C25_OddProductIsRejected ==
  gm_pc = "done" =>
    \A d \in DOMAIN gm_in.divSizes : (gm_in.divSizes[d] * gm_in.gamesPerTeam) % 2 = 0

(* --------- Time zones of the two constructors (specification TimezoneSpec) *)
\* the zone identifiers the time zone database knows, of those tried here
KnownZones == {"America/Los_Angeles", "America/Chicago", "America/New_York", "UTC"}

UnknownZones == {"Invalid/Timezone", "Nowhere/City", "PST-8x"}

\* the parameter is not given
NoParam == "<absent>"

TzInputs ==
  [timezone : KnownZones \cup UnknownZones \cup {NoParam},
   gamesPerTeam : (1..MaxK) \cup {0},
   blockSize : BlockSizeParams]

TzInit ==
  /\ SchedulerIdle /\ MatchupsIdle /\ PipelineIdle /\ OptimizerIdle /\ PassesIdle
  /\ fn_pc = "start"
  /\ fn_in \in TzInputs
  /\ fn_out = <<>>

\* SchedulerConfig.validate_timezone: the field validator of 'timezone'
validate_timezone(v) ==
  IF v \in KnownZones THEN [raised |-> FALSE, tz |-> v]
  ELSE [raised |-> TRUE, tz |-> NoParam]

\* SchedulerConfig(timezone = ...): the default is "America/Chicago"
CallSchedulerConfig ==
  /\ fn_pc = "start"
  /\ fn_out' = [fn |-> "SchedulerConfig"] @@
               validate_timezone(IF fn_in.timezone = NoParam THEN "America/Chicago"
                                 ELSE fn_in.timezone)
  /\ fn_pc' = "done"
  /\ UNCHANGED <<fn_in, callRest>>

\* EnhancedScheduler.__init__: tz_name defaults to "America/Los_Angeles";
\* ZoneInfo(tz_name) inside try, ZoneInfo("UTC") in the except branch
EnhancedSchedulerTz(params) ==
  LET tz_name == IF params.timezone = NoParam THEN "America/Los_Angeles"
                 ELSE params.timezone
  IN  IF tz_name \in KnownZones THEN [raised |-> FALSE, tz |-> tz_name]
      ELSE [raised |-> FALSE, tz |-> "UTC"]

CallEnhancedSchedulerInit ==
  /\ fn_pc = "start"
  /\ fn_out' = [fn |-> "EnhancedScheduler"] @@ EnhancedSchedulerTz(fn_in)
  /\ fn_pc' = "done"
  /\ UNCHANGED <<fn_in, callRest>>

TzNext == CallSchedulerConfig \/ CallEnhancedSchedulerInit

TimezoneSpec == TzInit /\ [][TzNext]_vars

\* C26: constructing SchedulerConfig or EnhancedScheduler with an
\* unrecognized time zone identifier fails with an error, and no other
\* time zone is put in its place
C26_UnknownTimezoneIsRejected ==
  (fn_pc = "done" /\ fn_in.timezone \in UnknownZones) =>
    (fn_out.raised /\ fn_out.tz \notin KnownZones)

(* ------- Validity of a swap (specification PassSpec) ------------------ *)
\* after the two games have exchanged their dates, every team of the two
\* games has at least rest_min_days between its consecutive games
RestKeptAfterSwap(gs, game1, game2, config) ==
  LET after == _simulate_swap(gs, game1, game2)
  IN \A team \in TeamsOf(game1) \cup TeamsOf(game2) :
       \A i \in DOMAIN _get_team_gaps(after, team) :
         _get_team_gaps(after, team)[i] >= config.rest_min_days

\* C27: the swap validity check accepts every swap of two games after which
\* each team of the two games has at least rest_min_days between its
\* consecutive games
C27_RestKeepingSwapIsAccepted ==
  \A i, j \in DOMAIN rp_games :
    (i # j /\ RestKeptAfterSwap(rp_games, rp_games[i], rp_games[j], rp_in.config))
      => _is_swap_valid(rp_teams, rp_games[i], rp_games[j], rp_in.config)

(* ------- The rescaling loop of the recipe (specification Spec) -------- *)
\* C28: when the derived recipe does not sum to the block size, the
\* rescaling loop terminates (every iteration it is about to run moves the
\* sum one step towards block_size) and the recipe it leaves sums to
\* block_size exactly
C28_RescalingTerminatesAtBlockSize ==
  /\ pc = "rescale" => (RecipeSum(scaled) < block_size \/ scaled[LargestDiv] > 1)
  /\ (pc \notin {"start", "rescale"} /\ RecipeSum(DerivedRecipe) # block_size)
        => RecipeSum(block_recipe) = block_size

(* ------- The bucket after the target (specification OptSpec) ---------- *)
\* the input has no same-day conflict, within a bucket or between a bucket
\* and the one before it
InputWithoutConflict ==
  \A i \in DOMAIN op_buckets :
    NoSameDayConflict(op_buckets[i], IF i > 1 THEN op_buckets[i - 1] ELSE <<>>)

\* C29: when a single target bucket b of a schedule without same-day
\* conflict has been optimized, no team of the returned schedule plays on
\* the same date in bucket b and in the unchanged bucket b + 1
C29_NoConflictWithFollowingBucket ==
  (op_pc = "done" /\ op_in.target_week # 0 /\ Optimizes(op_in.target_week)
     /\ InputWithoutConflict) =>
    LET b == op_in.target_week
        out == BucketsOf(optimized_schedule, OptBlockSize(op_in))
    IN (b + 1) \in DOMAIN out =>
         \A k \in DOMAIN out[b + 1] :
           ({out[b + 1][k].home, out[b + 1][k].away} \ {0})
             \cap TeamsOn(out[b], _parse_start_to_date(out[b + 1][k].start)) = {}

(* ===================================================================== *)
(* engine/scheduler.py: run_scheduler up to seed_week1                   *)
(* (specification SeedSpec)                                              *)
(* ===================================================================== *)
\* the caller's slots, sorted by start: day, start and end minute of the day
RawSlot(day, tod) == [day |-> day, tod |-> tod, end_tod |-> tod + 60]

SeedSlotLists ==
  {<<RawSlot(0, 1200)>>,
   <<RawSlot(0, 1200), RawSlot(0, 1280)>>,
   <<RawSlot(0, 1200), RawSlot(4, 1200)>>,
   <<RawSlot(0, 1200), RawSlot(4, 1280), RawSlot(8, 1200)>>}

SeedInputs ==
  [slots_raw : SeedSlotLists, minRestDays : {1, 3}, noBackToBack : BOOLEAN]

\* build_slots_df and the Slot objects of run_scheduler; the time zone is UTC
build_slots_df(slots_raw) ==
  [i \in DOMAIN slots_raw |->
     [id |-> i,
      start |-> slots_raw[i].day * MinutesPerDay + slots_raw[i].tod,
      eml |-> _classify_eml(hhmm(slots_raw[i].end_tod), hhmm(EarlyEndDefault),
                            hhmm(MidEndDefault)),
      weekday |-> slots_raw[i].day % 7,
      week_index |-> ((slots_raw[i].day - slots_raw[1].day) \div 7) + 1]]

\* _initial_state: a TeamState() per team
_initial_state(all_teams) ==
  [t \in all_teams |->
     [last_played |-> None, eml_counts |-> [b \in {"E", "M", "L"} |-> 0],
      weekday_counts |-> [w \in 0..6 |-> 0], home_count |-> 0, away_count |-> 0,
      first_slot_weeks |-> {}]]

\* _days_between of a team that has played
_days_between(prev, next_) == DateOf(next_) - DateOf(prev)

_eligible(slot, m, state, p) ==
  \A t \in {m.home, m.away} :
    state[t].last_played # None =>
      /\ _days_between(state[t].last_played, slot.start) >= p.minRestDays
      /\ p.noBackToBack => _days_between(state[t].last_played, slot.start) # 0

\* seed_week1, lines 277-289: the pick of a slot is committed
SeedCommit(acc, s, picked) ==
  LET After(t, st) ==
        [st EXCEPT !.last_played = s.start,
                   !.eml_counts[s.eml] = @ + 1,
                   !.weekday_counts[s.weekday] = @ + 1,
                   !.home_count = IF t = picked.home THEN @ + 1 ELSE @,
                   !.away_count = IF t = picked.home THEN @ ELSE @ + 1,
                   !.first_slot_weeks = @ \cup {s.week_index}]
  IN [assignments |-> Append(acc.assignments, [slot |-> s.id, pick |-> <<picked>>]),
      used |-> acc.used \cup {picked},
      state |-> [t \in DOMAIN acc.state |->
                   IF t \in {picked.home, picked.away} THEN After(t, acc.state[t])
                   ELSE acc.state[t]]]

\* the loop over w1_slots from position k; candidates.sort(key = (round_index,
\* rng.random())) puts any candidate of the least round_index first
RECURSIVE SeedFrom(_, _, _, _, _)
SeedFrom(w1_slots, k, acc, pool_in, p) ==
  IF k > Len(w1_slots) THEN {acc}
  ELSE LET s == w1_slots[k]
           candidates == {i \in DOMAIN pool_in :
                            /\ pool_in[i] \notin acc.used
                            /\ _eligible(s, pool_in[i], acc.state, p)}
           first == {i \in candidates :
                       \A j \in candidates :
                         pool_in[i].round_index <= pool_in[j].round_index}
       IN IF candidates = {}
          THEN SeedFrom(w1_slots, k + 1,
                        [acc EXCEPT !.assignments =
                                      Append(@, [slot |-> s.id, pick |-> <<>>])],
                        pool_in, p)
          ELSE UNION {SeedFrom(w1_slots, k + 1, SeedCommit(acc, s, pool_in[i]), pool_in, p) :
                        i \in first}

\* pool2 = [m for m in pool if m not in used], with used a set of Matchup values
PoolWithout(pool_in, used) ==
  SelectSeq(pool_in, LAMBDA m : m \notin used)

\* seed_week1: the set of results it can return
seed_week1(slots, pool_in, state, p) ==
  LET w1_slots == SelectSeq(slots, LAMBDA s : s.week_index = slots[1].week_index)
      ends == SeedFrom(w1_slots, 1, [assignments |-> <<>>, used |-> {}, state |-> state],
                       pool_in, p)
  IN {[assignments |-> e.assignments, pool |-> PoolWithout(pool_in, e.used),
       state |-> e.state] : e \in ends}

SeedInit ==
  /\ SchedulerIdle /\ PipelineIdle /\ OptimizerIdle /\ PassesIdle
  /\ gm_pc = "start"
  /\ gm_in \in GmInputs
  /\ pool = <<>>
  /\ cnt = <<>>
  /\ keep = <<>>
  /\ per = <<>>
  /\ gm_i = 0
  /\ gm_j = 0
  /\ fn_pc = "start"
  /\ fn_in \in SeedInputs
  /\ fn_out = <<>>

\* run_scheduler, lines 372-386: once generate_matchups has returned, the
\* slots, the team states and the week-1 seeding
SeedWeek1 ==
  /\ gm_pc = "done"
  /\ fn_pc = "start"
  /\ \E r \in seed_week1(build_slots_df(fn_in.slots_raw), keep, _initial_state(GmTeams),
                        [minRestDays |-> fn_in.minRestDays,
                         noBackToBack |-> fn_in.noBackToBack]) :
       fn_out' = r
  /\ fn_pc' = "done"
  /\ UNCHANGED <<fn_in, callRest>>

SeedNext == BuildPool \/ ExtendPool \/ PruneStep \/ ReturnPool \/ SeedWeek1

SeedSpec == SeedInit /\ [][SeedNext]_vars

\* the entries of a list of matchups equal to m
TimesInPool(ms, m) == Cardinality({i \in DOMAIN ms : ms[i] = m})

\* the week-1 assignments of m
TimesSeeded(assignments, m) ==
  Cardinality({i \in DOMAIN assignments : assignments[i].pick = <<m>>})

\* C30: seed_week1 removes from the pool one entry per matchup it assigns,
\* equal duplicates included: every entry of the pool that generate_matchups
\* returned is either assigned once or still in the pool handed to
\* greedy_assign
C30_SeedRemovesOneEntryPerAssignment ==
  fn_pc = "done" =>
    \A i \in DOMAIN keep :
      TimesInPool(keep, keep[i])
        = TimesSeeded(fn_out.assignments, keep[i]) + TimesInPool(fn_out.pool, keep[i])

====
